---- MODULE Spec2Model ----
(***************************************************************************)
(* GoodDeeds: credential authentication and route authorization.          *)
(*                                                                         *)
(* The model covers the API route handlers (signup, login, create post),   *)
(* the token issuer/verifier, the response envelope, the client session    *)
(* hook and the edge middleware (Route Gate).                              *)
(*                                                                         *)
(* Strings whose characters matter (paths, emails, passwords, header       *)
(* prefixes) are sequences of one-character strings.  Time is counted in   *)
(* days.  A route handler is cut at its awaits: each action is one         *)
(* synchronous segment of the handler together with the store operation    *)
(* whose result it consumes.                                               *)
(***************************************************************************)
EXTENDS Integers, Sequences, FiniteSets, TLC

VARIABLES
    env,           \* process configuration: JWT_SECRET, NODE_ENV
    now,           \* current time, in days
    users,         \* table "User"
    posts,         \* table "Post"
    reqs,          \* API requests in flight, one record per slot
    issued,        \* history: every token generateToken has returned
    cookie,        \* browser cookie authToken (Null when absent or expired)
    cookieExp,     \* day on which the browser drops the cookie
    localStorage,  \* browser localStorage: keys authToken and user
    hook,          \* React state of useAuth: token, user, mounted
    discarded,     \* history: tokens the client dropped at logout
    nav,           \* the last navigation the middleware decided, with its decision
    api,           \* a component using useApi: its state and its effects
    form,          \* a component using useForm: its state and its pending submit
    pag            \* the last GET /api/posts: its query and what it computed

vars == <<env, now, users, posts, reqs, issued, cookie, cookieExp,
          localStorage, hook, discarded, nav, api, form, pag>>

serverVars == <<env, users, posts, reqs, issued>>
uiVars == <<api, form, pag>>
clientVars == <<cookie, cookieExp, localStorage, hook, discarded, nav, uiVars>>

(* Bounds of the model *)

MaxTime == 7
MaxPosts == 1
NumReqs == 2

ReqIds == 1..NumReqs

(* Values *)

Null == [kind |-> "null"]

RECURSIVE StartsWith(_, _)
StartsWith(s, p) ==
    IF p = <<>> THEN TRUE
    ELSE IF s = <<>> THEN FALSE
    ELSE Head(s) = Head(p) /\ StartsWith(Tail(s), Tail(p))

Range(s) == {s[i] : i \in 1..Len(s)}

UpperChars == {"A", "B", "J", "T", "X"}
LowerChars == {"a", "b", "c", "d", "e", "f", "j", "m", "o", "s", "t", "x"}
DigitChars == {"1", "2"}
SpecialChars == {"@", "$", "!", "%", "*", "?", "&"}
SpaceChars == {" "}

LowerOf(c) ==
    CASE c = "A" -> "a"
      [] c = "B" -> "b"
      [] c = "J" -> "j"
      [] c = "T" -> "t"
      [] c = "X" -> "x"
      [] OTHER -> c

ToLowerCase(s) == [i \in 1..Len(s) |-> LowerOf(s[i])]

RECURSIVE TrimStart(_)
TrimStart(s) ==
    IF s # <<>> /\ Head(s) \in SpaceChars THEN TrimStart(Tail(s)) ELSE s

RECURSIVE TrimEnd(_)
TrimEnd(s) ==
    IF s # <<>> /\ s[Len(s)] \in SpaceChars
    THEN TrimEnd(SubSeq(s, 1, Len(s) - 1))
    ELSE s

Trim(s) == TrimEnd(TrimStart(s))


(* Validators (zod schemas and validateInput) *)

Letters == UpperChars \cup LowerChars
AlphaNum == Letters \cup DigitChars

Has(rec, f) == f \in DOMAIN rec

(* position of the single "@" of s, or 0 *)
AtPositions(s) == {i \in 1..Len(s) : s[i] = "@"}

(* zod's e-mail check: no white space, one "@", a non-empty local part,    *)
(* a domain of dot-separated labels ending in a label of two or more       *)
(* letters.  It is applied to the text as received.                        *)
IsEmail(s) ==
    /\ Cardinality(AtPositions(s)) = 1
    /\ LET at == CHOOSE i \in AtPositions(s) : TRUE
           local == SubSeq(s, 1, at - 1)
           domain == SubSeq(s, at + 1, Len(s))
       IN  /\ local # <<>>
           /\ Range(local) \subseteq AlphaNum \cup {"."}
           /\ Head(local) # "."
           /\ local[Len(local)] # "."
           /\ \E d \in 2..(Len(domain) - 2) :
                 /\ domain[d] = "."
                 /\ Range(SubSeq(domain, 1, d - 1)) \subseteq AlphaNum
                 /\ Range(SubSeq(domain, d + 1, Len(domain))) \subseteq Letters

Issue(path, message) == [path |-> path, message |-> message]

(* the issues of a list of candidate checks, in order *)
Failing(checks) ==
    LET bad == SelectSeq(checks, LAMBDA c : c.fails)
    IN  [i \in 1..Len(bad) |-> Issue(bad[i].path, bad[i].message)]

Check(path, fails, message) == [path |-> path, fails |-> fails, message |-> message]

emailIssues(data) ==
    IF ~Has(data, "email") THEN <<Issue("email", "Required")>>
    ELSE Failing(<<Check("email", ~IsEmail(data.email), "Invalid email format")>>)

emailSchema_asWritten(raw) == Trim(raw)

emailSchema(raw) == Trim(ToLowerCase(raw))

passwordIssues_noDigit(data) ==
    IF ~Has(data, "password") THEN <<Issue("password", "Required")>>
    ELSE LET p == data.password IN
      Failing(<<
        Check("password", Len(p) < 8, "Password must be at least 8 characters long"),
        Check("password", Range(p) \cap UpperChars = {},
              "Password must contain at least one uppercase letter"),
        Check("password", Range(p) \cap LowerChars = {},
              "Password must contain at least one lowercase letter"),
        Check("password", Range(p) \cap SpecialChars = {},
              "Password must contain at least one special character (@$!%*?&)")
      >>)

passwordIssues(data) ==
    IF ~Has(data, "password") THEN <<Issue("password", "Required")>>
    ELSE LET p == data.password IN
      Failing(<<
        Check("password", Len(p) < 8, "Password must be at least 8 characters long"),
        Check("password", Range(p) \cap UpperChars = {},
              "Password must contain at least one uppercase letter"),
        Check("password", Range(p) \cap LowerChars = {},
              "Password must contain at least one lowercase letter"),
        Check("password", Range(p) \cap DigitChars = {},
              "Password must contain at least one number"),
        Check("password", Range(p) \cap SpecialChars = {},
              "Password must contain at least one special character (@$!%*?&)")
      >>)

nameIssues(data) ==
    IF ~Has(data, "name") THEN <<Issue("name", "Required")>>
    ELSE LET n == data.name IN
      Failing(<<
        Check("name", Len(n) < 2, "Name must be at least 2 characters long"),
        Check("name", Len(n) > 100, "Name must be at most 100 characters long"),
        Check("name", n = <<>> \/ ~(Range(n) \subseteq Letters \cup SpaceChars \cup {"-", "'"}),
              "Name can only contain letters, spaces, hyphens, and apostrophes")
      >>)

loginPasswordIssues(data) ==
    IF ~Has(data, "password") THEN <<Issue("password", "Required")>>
    ELSE Failing(<<Check("password", Len(data.password) < 1, "Password is required")>>)

postTypes == {"offer", "request"}
categories == {"physical", "monetary", "goods", "mentoring", "other"}

createPostIssues(data) ==
    (IF ~Has(data, "title") THEN <<Issue("title", "Required")>>
     ELSE Failing(<<
        Check("title", Len(data.title) < 5, "Title must be at least 5 characters long"),
        Check("title", Len(data.title) > 200, "Title must be at most 200 characters long")>>))
    \o
    (IF ~Has(data, "description") THEN <<Issue("description", "Required")>>
     ELSE Failing(<<
        Check("description", Len(data.description) < 10,
              "Description must be at least 10 characters long"),
        Check("description", Len(data.description) > 5000,
              "Description must be at most 5000 characters long")>>))
    \o
    (IF ~Has(data, "type") THEN <<Issue("type", "Required")>>
     ELSE Failing(<<Check("type", data.type \notin postTypes, "Invalid enum value")>>))
    \o
    (IF ~Has(data, "category") THEN <<Issue("category", "Required")>>
     ELSE Failing(<<Check("category", data.category \notin categories, "Invalid enum value")>>))

signupIssues(data) == nameIssues(data) \o emailIssues(data) \o passwordIssues(data)
loginIssues(data) == emailIssues(data) \o loginPasswordIssues(data)

(* the parsed value of a schema: known keys only, e-mail normalised *)
signupSchema(data) ==
    [name |-> data.name, email |-> emailSchema(data.email), password |-> data.password]
loginSchema(data) ==
    [email |-> emailSchema(data.email), password |-> data.password]
createPostSchema(data) ==
    [title |-> data.title, description |-> data.description,
     type |-> data.type, category |-> data.category]

(* errors[path] = issue.message for each issue in turn: a later issue on   *)
(* the same path replaces an earlier one                                   *)
ErrorsOf(issues) ==
    [p \in {issues[i].path : i \in 1..Len(issues)} |->
        LET last == CHOOSE i \in 1..Len(issues) :
                        /\ issues[i].path = p
                        /\ \A j \in (i + 1)..Len(issues) : issues[j].path # p
        IN  issues[last].message]

validateInput(schema, data) ==
    LET issues == CASE schema = "signup" -> signupIssues(data)
                    [] schema = "login" -> loginIssues(data)
                    [] schema = "createPost" -> createPostIssues(data)
    IN  IF issues # <<>>
        THEN [success |-> FALSE, errors |-> ErrorsOf(issues)]
        ELSE [success |-> TRUE,
              data |-> CASE schema = "signup" -> signupSchema(data)
                         [] schema = "login" -> loginSchema(data)
                         [] schema = "createPost" -> createPostSchema(data)]

(* Constants of the program *)

HTTP_OK == 200
HTTP_CREATED == 201
HTTP_BAD_REQUEST == 400
HTTP_UNAUTHORIZED == 401
HTTP_NOT_FOUND == 404
HTTP_CONFLICT == 409
HTTP_INTERNAL_SERVER_ERROR == 500

TOKEN_EXPIRY_DAYS == 7
COOKIE_EXPIRY_DAYS == 7

INVALID_CREDENTIALS == "Invalid email or password"
USER_ALREADY_EXISTS == "User with this email already exists"
INTERNAL_SERVER_ERROR == "An error occurred while processing your request"
UNAUTHORIZED == "Unauthorized: Please provide a valid authentication token"
POST_NOT_FOUND == "Post not found"
INVALID_INPUT == "Invalid input data"
USER_CREATED == "User created successfully"
LOGIN_SUCCESSFUL == "Login successful"
POST_CREATED == "Post created successfully"
OPERATION_SUCCESS == "Operation completed successfully"

NodeEnvs == {"development", "production", "test"}
Secrets == {"", "s1"}

(* Response Envelope *)

successResponse(data, message, status) ==
    [status |-> status,
     body |-> [success |-> TRUE, data |-> data,
               message |-> IF message = "" THEN OPERATION_SUCCESS ELSE message,
               timestamp |-> now]]

(* details is Null when the caller passes none; an undefined details is    *)
(* dropped when the body is serialised                                     *)
errorResponse_always(message, code, status, details) ==
    [status |-> status,
     body |-> [success |-> FALSE, error |-> message, code |-> code,
               status |-> status, details |-> details, timestamp |-> now]]

errorResponse(message, code, status, details) ==
    [status |-> status,
     body |-> IF env.NODE_ENV = "development" /\ details # Null
              THEN [success |-> FALSE, error |-> message, code |-> code,
                    status |-> status, details |-> details, timestamp |-> now]
              ELSE [success |-> FALSE, error |-> message, code |-> code,
                    status |-> status, timestamp |-> now]]

validationErrorResponse_flat(errors) ==
    errorResponse(INVALID_INPUT, "VALIDATION_ERROR", HTTP_BAD_REQUEST, errors)

validationErrorResponse(errors) ==
    errorResponse(INVALID_INPUT, "VALIDATION_ERROR", HTTP_BAD_REQUEST,
                  [validationErrors |-> errors])

unauthorizedResponse(message) ==
    errorResponse(message, "UNAUTHORIZED", HTTP_UNAUTHORIZED, Null)

conflictResponse(message) ==
    errorResponse(message, "CONFLICT", HTTP_CONFLICT, Null)

notFoundResponse(message) ==
    errorResponse(message, "NOT_FOUND", HTTP_NOT_FOUND, Null)

(* thrown values: Error objects and, for a defect, a value that is no Error *)
ErrorOf(name, message) == [instanceofError |-> TRUE, name |-> name, message |-> message]
SyntaxError == ErrorOf("SyntaxError", "Unexpected token in JSON")
StoreError == ErrorOf("PrismaClientInitializationError", "Can't reach database server")
UniqueViolation ==
    ErrorOf("PrismaClientKnownRequestError", "P2002 Unique constraint failed on the fields: (email)")
SecretError ==
    ErrorOf("Error", "JWT_SECRET environment variable is not set. This is required for authentication.")
Defect == [instanceofError |-> FALSE, name |-> "", message |-> "thrown value"]

handleError(error, context) ==
    LET errorMessage == IF error.instanceofError THEN error.message
                        ELSE "Unknown error occurred"
    IN  errorResponse(INTERNAL_SERVER_ERROR, "INTERNAL_ERROR", HTTP_INTERNAL_SERVER_ERROR,
                      IF env.NODE_ENV = "development"
                      THEN [originalError |-> errorMessage] ELSE Null)

(* Outcome of one synchronous segment of a handler *)
Return(res) == [t |-> "return", res |-> res]
Throw(error) == [t |-> "throw", error |-> error]
Await(pc, locals) == [t |-> "await", pc |-> pc, locals |-> locals]

withErrorHandling_rethrow(outcome, context) == outcome

withErrorHandling(outcome, context) ==
    IF outcome.t = "throw" THEN Return(handleError(outcome.error, context)) ELSE outcome

(* Token Issuer / Verifier *)

Sign(payload, key) == [key |-> key, payload |-> payload]

Jwt(payload, key) == [kind |-> "jwt", payload |-> payload, sig |-> Sign(payload, key)]
Garbage == [kind |-> "garbage"]
EmptyToken == [kind |-> "empty"]

getJwtSecret_fallback ==
    IF env.JWT_SECRET = "" THEN Return("fallback-secret") ELSE Return(env.JWT_SECRET)

getJwtSecret == IF env.JWT_SECRET = "" THEN Throw(SecretError) ELSE Return(env.JWT_SECRET)

generateToken_longLived(userId, email) ==
    LET secret == getJwtSecret IN
    IF secret.t = "throw" THEN secret
    ELSE Return(Jwt([id |-> userId, email |-> email, iat |-> now,
                     exp |-> now + TOKEN_EXPIRY_DAYS * TOKEN_EXPIRY_DAYS], secret.res))

generateToken(userId, email) ==
    LET secret == getJwtSecret IN
    IF secret.t = "throw" THEN secret
    ELSE Return(Jwt([id |-> userId, email |-> email, iat |-> now,
                     exp |-> now + TOKEN_EXPIRY_DAYS], secret.res))

(* jsonwebtoken's verify: structure, then signature, then expiry *)
jwtVerify(token, secret) ==
    IF token.kind # "jwt" THEN Throw(ErrorOf("JsonWebTokenError", "jwt malformed"))
    ELSE IF token.sig # Sign(token.payload, secret)
         THEN Throw(ErrorOf("JsonWebTokenError", "invalid signature"))
    ELSE IF now >= token.payload.exp
         THEN Throw(ErrorOf("TokenExpiredError", "jwt expired"))
    ELSE Return(token.payload)

IsJsonWebTokenError(error) == error.name \in {"JsonWebTokenError", "TokenExpiredError"}

AuthFailure(message) == [success |-> FALSE, error |-> message]

verifyToken_revocable(token) ==
    LET secret == getJwtSecret
        decoded == IF secret.t = "throw" THEN secret ELSE jwtVerify(token, secret.res)
    IN  IF token \in discarded THEN AuthFailure("Token has been revoked")
        ELSE IF decoded.t = "return"
        THEN [success |-> TRUE, user |-> decoded.res]
        ELSE AuthFailure(IF IsJsonWebTokenError(decoded.error)
                         THEN IF decoded.error.name = "TokenExpiredError"
                              THEN "Token has expired"
                              ELSE "Invalid token"
                         ELSE "Token verification failed")

verifyToken_expiredAsInvalid(token) ==
    LET secret == getJwtSecret
        decoded == IF secret.t = "throw" THEN secret ELSE jwtVerify(token, secret.res)
    IN  IF decoded.t = "return"
        THEN [success |-> TRUE, user |-> decoded.res]
        ELSE AuthFailure(IF IsJsonWebTokenError(decoded.error)
                         THEN "Invalid token"
                         ELSE "Token verification failed")

verifyToken(token) ==
    LET secret == getJwtSecret
        decoded == IF secret.t = "throw" THEN secret ELSE jwtVerify(token, secret.res)
    IN  IF decoded.t = "return"
        THEN [success |-> TRUE, user |-> decoded.res]
        ELSE AuthFailure(IF IsJsonWebTokenError(decoded.error)
                         THEN IF decoded.error.name = "TokenExpiredError"
                              THEN "Token has expired"
                              ELSE "Invalid token"
                         ELSE "Token verification failed")

BearerPrefix == <<"B", "e", "a", "r", "e", "r", " ">>

extractToken_anyCase(headers) ==
    IF headers.authorization = Null THEN Null
    ELSE IF ~StartsWith(ToLowerCase(headers.authorization.prefix), ToLowerCase(BearerPrefix))
         THEN Null
    ELSE IF Len(headers.authorization.prefix) = Len(BearerPrefix)
         THEN headers.authorization.token
         ELSE Garbage

(* The authorization header is the text prefix followed by a token.        *)
(* extractToken returns what follows the first 7 characters.               *)
extractToken(headers) ==
    IF headers.authorization = Null THEN Null
    ELSE IF ~StartsWith(headers.authorization.prefix, BearerPrefix) THEN Null
    ELSE IF Len(headers.authorization.prefix) = Len(BearerPrefix)
         THEN headers.authorization.token
         ELSE Garbage

authenticateRequest_presence(headers) ==
    LET token == extractToken(headers) IN
    IF token = Null \/ token = EmptyToken
    THEN AuthFailure("No authentication token provided")
    ELSE IF token.kind = "jwt" THEN [success |-> TRUE, user |-> token.payload]
    ELSE AuthFailure("Invalid token")

authenticateRequest(headers) ==
    LET token == extractToken(headers) IN
    IF token = Null \/ token = EmptyToken
    THEN AuthFailure("No authentication token provided")
    ELSE verifyToken(token)

(* Password Hasher (bcrypt) *)
bcryptHash(password) == [bcrypt |-> password]
bcryptCompare(password, hashed) == hashed = bcryptHash(password)

(* Record store *)

findUnique(table, email) ==
    IF \E u \in table : u.email = email
    THEN CHOOSE u \in table : u.email = email
    ELSE Null

NewUser(table, data) ==
    [id |-> Cardinality(table) + 1, email |-> data.email,
     password |-> data.password, name |-> data.name]

userCreate_unchecked(table, data) == Return(NewUser(table, data))

(* INSERT into "User": the constraint User_email_key rejects a duplicate *)
userCreate(table, data) ==
    IF \E u \in table : u.email = data.email
    THEN Throw(UniqueViolation)
    ELSE Return(NewUser(table, data))

postCreate(table, data) ==
    [id |-> Cardinality(table) + 1, title |-> data.title,
     description |-> data.description, type |-> data.type,
     category |-> data.category, authorId |-> data.authorId, status |-> "active"]

(* Inputs *)

E_a == <<"a", "@", "x", ".", "c", "o">>
E_A == <<"A", "@", "X", ".", "c", "o">>
E_b == <<"b", "@", "x", ".", "c", "o">>
E_bad == <<"a", "@", "x">>
P_1 == <<"A", "b", "c", "d", "e", "f", "1", "!">>
P_2 == <<"X", "b", "c", "d", "e", "f", "2", "?">>
P_weak == <<"a", "b", "c">>
N_jo == <<"J", "o">>
N_short == <<"J">>
T_ok == <<"T", "a", "b", "l", "e">>
T_short == <<"T", "a", "b">>
D_ok == <<"a", " ", "o", "a", "k", " ", "t", "a", "b", "l", "e">>

Malformed == [malformed |-> TRUE]

SignupBodies ==
    { [name |-> N_jo, email |-> E_a, password |-> P_1],
      [name |-> N_jo, email |-> E_A, password |-> P_2],
      [name |-> N_jo, email |-> E_b, password |-> P_1],
      [name |-> N_short, email |-> E_bad, password |-> P_weak],
      Malformed }

LoginBodies ==
    { [email |-> E_a, password |-> P_1],
      [email |-> E_a, password |-> P_2],
      [email |-> E_b, password |-> P_2],
      [email |-> E_bad],
      Malformed }

PostBodies ==
    { [title |-> T_ok, description |-> D_ok, type |-> "offer", category |-> "goods"],
      [title |-> T_ok, description |-> D_ok, type |-> "request", category |-> "other",
       authorId |-> 2],
      [title |-> T_short, description |-> D_ok, type |-> "gift"],
      Malformed }

DbOutcomes == {"ok", "down", "defect"}

DbFault(db) == IF db = "down" THEN Throw(StoreError) ELSE Throw(Defect)

(* tokens a client can put in a request: those it was given, altered       *)
(* copies of them, a token signed with another key, and arbitrary text     *)
Tampered(token) ==
    [token EXCEPT !.payload = [@ EXCEPT !.id = IF @ = 1 THEN 2 ELSE 1]]
Forged ==
    Jwt([id |-> 1, email |-> E_a, iat |-> 0, exp |-> MaxTime + TOKEN_EXPIRY_DAYS + 1], "evil")
Presentable == issued \cup {Tampered(t) : t \in issued} \cup {Forged, Garbage, EmptyToken}

LowerPrefix == <<"b", "e", "a", "r", "e", "r", " ">>

PostHeaders ==
    {[authorization |-> Null]}
    \cup {[authorization |-> [prefix |-> BearerPrefix, token |-> t]] : t \in Presentable}
    \cup {[authorization |-> [prefix |-> LowerPrefix, token |-> t]] : t \in issued}

NoHeaders == [authorization |-> Null]

(* authorization headers whose scheme is not written "Bearer " *)
UpperPrefix == <<"B", "E", "A", "R", "E", "R", " ">>
NoSpacePrefix == <<"B", "e", "a", "r", "e", "r">>
LeadingSpacePrefix == <<" ">> \o BearerPrefix
TokenPrefix == <<"T", "o", "k", "e", "n", " ">>
OddPrefixes == {LowerPrefix, UpperPrefix, NoSpacePrefix, LeadingSpacePrefix, TokenPrefix, <<>>}

OddHeaders ==
    {[authorization |-> [prefix |-> p, token |-> t]] :
        p \in OddPrefixes, t \in issued \cup {Garbage}}

(* API requests *)

IdleReq ==
    [kind |-> "none", pc |-> "idle", headers |-> NoHeaders, body |-> Null,
     locals |-> Null, res |-> Null, exc |-> Null, afterLogout |-> FALSE]

Free(r) == reqs[r].pc \in {"idle", "done", "crashed"}

(* afterLogout is history: the client had dropped the presented token at   *)
(* a logout before it sent the request                                     *)
NewReq(kind, pc, headers, body) ==
    [kind |-> kind, pc |-> pc, headers |-> headers, body |-> body,
     locals |-> Null, res |-> Null, exc |-> Null,
     afterLogout |-> headers.authorization # Null
                     /\ headers.authorization.token \in discarded]

(* the request after a segment ended with `outcome`, the handler being     *)
(* wrapped by withErrorHandling                                            *)
After(req, outcome, context) ==
    LET o == withErrorHandling(outcome, context)
        thrown == IF outcome.t = "throw" THEN outcome.error ELSE req.exc
    IN  CASE o.t = "return" -> [req EXCEPT !.pc = "done", !.res = o.res, !.exc = thrown]
          [] o.t = "throw" -> [req EXCEPT !.pc = "crashed", !.exc = thrown]
          [] o.t = "await" -> [req EXCEPT !.pc = o.pc, !.locals = o.locals]

(* POST /api/auth/signup *)

ReceiveSignup(r, body) ==
    /\ Free(r)
    /\ reqs' = [reqs EXCEPT ![r] = NewReq("signup", "json", NoHeaders, body)]
    /\ UNCHANGED <<env, now, users, posts, issued, clientVars>>

SignupValidate(r) ==
    /\ reqs[r].kind = "signup" /\ reqs[r].pc = "json"
    /\ LET body == reqs[r].body
           validation == validateInput("signup", body)
           outcome == IF body = Malformed THEN Throw(SyntaxError)
                      ELSE IF ~validation.success
                           THEN Return(validationErrorResponse(validation.errors))
                           ELSE Await("find", validation.data)
       IN  reqs' = [reqs EXCEPT ![r] = After(@, outcome, "SIGNUP")]
    /\ UNCHANGED <<env, now, users, posts, issued, clientVars>>

ConflictMessage ==
    "User with email \"<email>\" already exists. Please try logging in or use a different email."

SignupFind(r, db) ==
    /\ reqs[r].kind = "signup" /\ reqs[r].pc = "find"
    /\ LET data == reqs[r].locals
           existingUser == findUnique(users, data.email)
           outcome == IF db # "ok" THEN DbFault(db)
                      ELSE IF existingUser # Null
                           THEN Return(conflictResponse(ConflictMessage))
                           ELSE Await("create", data)
       IN  reqs' = [reqs EXCEPT ![r] = After(@, outcome, "SIGNUP")]
    /\ UNCHANGED <<env, now, users, posts, issued, clientVars>>

UserSummary(user) == [id |-> user.id, email |-> user.email, name |-> user.name]

SignupCreate(r, db) ==
    /\ reqs[r].kind = "signup" /\ reqs[r].pc = "create"
    /\ LET data == reqs[r].locals
           hashedPassword == bcryptHash(data.password)
           created == IF db # "ok" THEN DbFault(db)
                      ELSE userCreate(users, [name |-> data.name, email |-> data.email,
                                              password |-> hashedPassword])
           token == IF created.t = "throw" THEN created
                    ELSE generateToken(created.res.id, created.res.email)
           outcome == IF token.t = "throw" THEN token
                      ELSE Return(successResponse(
                               [token |-> token.res, user |-> UserSummary(created.res)],
                               USER_CREATED, HTTP_CREATED))
       IN  /\ users' = IF created.t = "return" THEN users \cup {created.res} ELSE users
           /\ issued' = IF token.t = "return" THEN issued \cup {token.res} ELSE issued
           /\ reqs' = [reqs EXCEPT ![r] = After(@, outcome, "SIGNUP")]
    /\ UNCHANGED <<env, now, posts, clientVars>>

(* POST /api/auth/login *)

ReceiveLogin(r, body) ==
    /\ Free(r)
    /\ reqs' = [reqs EXCEPT ![r] = NewReq("login", "json", NoHeaders, body)]
    /\ UNCHANGED <<env, now, users, posts, issued, clientVars>>

LoginValidate(r) ==
    /\ reqs[r].kind = "login" /\ reqs[r].pc = "json"
    /\ LET body == reqs[r].body
           validation == validateInput("login", body)
           outcome == IF body = Malformed THEN Throw(SyntaxError)
                      ELSE IF ~validation.success
                           THEN Return(validationErrorResponse(validation.errors))
                           ELSE Await("find", validation.data)
       IN  reqs' = [reqs EXCEPT ![r] = After(@, outcome, "LOGIN")]
    /\ UNCHANGED <<env, now, users, posts, issued, clientVars>>

loginOutcome_enumerating(user, password) ==
    IF user = Null THEN Return(notFoundResponse("User not found"))
    ELSE IF ~bcryptCompare(password, user.password)
         THEN Return(unauthorizedResponse(INVALID_CREDENTIALS))
    ELSE LET token == generateToken(user.id, user.email) IN
         IF token.t = "throw" THEN token
         ELSE Return(successResponse([token |-> token.res, user |-> UserSummary(user)],
                                     LOGIN_SUCCESSFUL, HTTP_OK))

(* the login handler from the result of findUnique on *)
loginOutcome(user, password) ==
    IF user = Null THEN Return(unauthorizedResponse(INVALID_CREDENTIALS))
    ELSE IF ~bcryptCompare(password, user.password)
         THEN Return(unauthorizedResponse(INVALID_CREDENTIALS))
    ELSE LET token == generateToken(user.id, user.email) IN
         IF token.t = "throw" THEN token
         ELSE Return(successResponse([token |-> token.res, user |-> UserSummary(user)],
                                     LOGIN_SUCCESSFUL, HTTP_OK))

LoginFind(r, db) ==
    /\ reqs[r].kind = "login" /\ reqs[r].pc = "find"
    /\ LET data == reqs[r].locals
           user == findUnique(users, data.email)
           outcome == IF db # "ok" THEN DbFault(db) ELSE loginOutcome(user, data.password)
       IN  /\ issued' = IF outcome.t = "return" /\ outcome.res.status = HTTP_OK
                        THEN issued \cup {outcome.res.body.data.token} ELSE issued
           /\ reqs' = [reqs EXCEPT ![r] =
                        [After(@, outcome, "LOGIN") EXCEPT
                           !.locals = IF db = "ok" THEN [data |-> data, user |-> user] ELSE @]]
    /\ UNCHANGED <<env, now, users, posts, clientVars>>

(* POST /api/posts *)

PostAuth(r, headers, body) ==
    /\ Free(r)
    /\ Cardinality(posts) < MaxPosts \/ ~authenticateRequest(headers).success
    /\ LET authResult == authenticateRequest(headers)
           outcome == IF ~authResult.success
                      THEN Return(unauthorizedResponse(
                               IF authResult.error = "" THEN UNAUTHORIZED
                               ELSE authResult.error))
                      ELSE Await("json", [user |-> authResult.user, authAt |-> now])
       IN  reqs' = [reqs EXCEPT ![r] =
                       After(NewReq("post", "auth", headers, body), outcome, "CREATE_POST")]
    /\ UNCHANGED <<env, now, users, posts, issued, clientVars>>

PostValidate(r) ==
    /\ reqs[r].kind = "post" /\ reqs[r].pc = "json"
    /\ LET body == reqs[r].body
           validation == validateInput("createPost", body)
           outcome == IF body = Malformed THEN Throw(SyntaxError)
                      ELSE IF ~validation.success
                           THEN Return(validationErrorResponse(validation.errors))
                           ELSE Await("create", [user |-> reqs[r].locals.user,
                                                 authAt |-> reqs[r].locals.authAt,
                                                 data |-> validation.data])
       IN  reqs' = [reqs EXCEPT ![r] = After(@, outcome, "CREATE_POST")]
    /\ UNCHANGED <<env, now, users, posts, issued, clientVars>>

createPostInput_authorFromBody(body, data, user) ==
    [title |-> data.title, description |-> data.description,
     type |-> data.type, category |-> data.category,
     authorId |-> IF Has(body, "authorId") THEN body.authorId ELSE user.id]

(* the argument of PostService.createPost: the four validated fields and   *)
(* the id of the authenticated user                                        *)
createPostInput(body, data, user) ==
    [title |-> data.title, description |-> data.description,
     type |-> data.type, category |-> data.category,
     authorId |-> user.id]

ForeignKeyViolation ==
    ErrorOf("PrismaClientKnownRequestError", "P2003 Foreign key constraint failed: authorId")

PostCreate(r, db) ==
    /\ reqs[r].kind = "post" /\ reqs[r].pc = "create"
    /\ LET data == reqs[r].locals.data
           input == createPostInput(reqs[r].body, data, reqs[r].locals.user)
           authorId == input.authorId
           post == postCreate(posts, input)
           outcome == IF db # "ok" THEN DbFault(db)
                      ELSE IF ~\E u \in users : u.id = authorId
                           THEN Throw(ForeignKeyViolation)
                           ELSE Return(successResponse(post, POST_CREATED, HTTP_CREATED))
       IN  /\ posts' = IF outcome.t = "return" THEN posts \cup {post} ELSE posts
           /\ reqs' = [reqs EXCEPT ![r] = After(@, outcome, "CREATE_POST")]
    /\ UNCHANGED <<env, now, users, issued, clientVars>>

(* Route Gate (edge middleware) *)

P_root == <<"/">>
P_login == <<"/", "l", "o", "g", "i", "n">>
P_posts == <<"/", "p", "o", "s", "t", "s">>
P_create == <<"/", "c", "r", "e", "a", "t", "e">>
P_createNew == P_create \o <<"/", "n", "e", "w">>
P_creator == P_create \o <<"o", "r">>
P_Create == <<"/", "C", "r", "e", "a", "t", "e">>
P_profile == <<"/", "p", "r", "o", "f", "i", "l", "e">>
P_messages == <<"/", "m", "e", "s", "s", "a", "g", "e", "s">>
P_dashboard == <<"/", "d", "a", "s", "h", "b", "o", "a", "r", "d">>

protectedRoutes_withLogin == {P_create, P_profile, P_messages, P_dashboard, P_login}

protectedRoutes == {P_create, P_profile, P_messages, P_dashboard}

Url(pathname, search) == [pathname |-> pathname, search |-> search]

(* new URL(path, base): the path on the origin of base, with no query *)
NewUrl(pathname, base) == Url(pathname, <<>>)

Redirect(url) == [type |-> "redirect", location |-> url]
PassThrough == [type |-> "next"]

(* a request is its URL and its cookies; cookies.authToken is Null when    *)
(* the cookie is absent and EmptyToken when its value is the empty string  *)
middleware_verifying(request) ==
    LET isProtectedRoute == \E route \in protectedRoutes :
                                StartsWith(request.url.pathname, route)
        authToken == request.cookies.authToken
    IN  IF isProtectedRoute
           /\ (authToken = Null \/ authToken = EmptyToken \/ ~verifyToken(authToken).success)
        THEN Redirect(NewUrl(P_login, request.url))
        ELSE PassThrough

middleware_clientStore(request) ==
    LET isProtectedRoute == \E route \in protectedRoutes :
                                StartsWith(request.url.pathname, route)
        authToken == request.cookies.authToken
    IN  IF isProtectedRoute
           /\ (authToken = Null \/ authToken = EmptyToken)
           /\ localStorage.authToken = Null
        THEN Redirect(NewUrl(P_login, request.url))
        ELSE PassThrough

middleware(request) ==
    LET isProtectedRoute == \E route \in protectedRoutes :
                                StartsWith(request.url.pathname, route)
        authToken == request.cookies.authToken
    IN  IF isProtectedRoute /\ (authToken = Null \/ authToken = EmptyToken)
        THEN Redirect(NewUrl(P_login, request.url))
        ELSE PassThrough

(* the browser requests a page: the middleware sees the URL and the        *)
(* cookie jar, never localStorage                                          *)
NavRecord(url) ==
    LET request == [url |-> url, cookies |-> [authToken |-> cookie]]
    IN  [request |-> request, stored |-> localStorage.authToken,
         response |-> middleware(request)]

Navigate(url) ==
    /\ nav' = NavRecord(url)
    /\ UNCHANGED <<serverVars, uiVars, now, cookie, cookieExp, localStorage, hook, discarded>>

(* the browser follows a redirect: it requests the location it was given,  *)
(* with the same cookie jar, and the middleware runs on that request too   *)
FollowRedirect ==
    /\ nav # Null
    /\ nav.response.type = "redirect"
    /\ Navigate(nav.response.location)

(* Session Store (useAuth) *)

JsonStringify(value) == [text |-> "json", value |-> value]
Garbled == [text |-> "garbled"]
JsonParse(text) == IF text.text = "json" THEN Return(text.value) ELSE Throw(SyntaxError)

Mount_keepMalformed ==
    /\ ~hook.mounted
    /\ LET storedToken == localStorage.authToken
           storedUser == localStorage.user
           parsed == IF storedUser = Null THEN Throw(SyntaxError) ELSE JsonParse(storedUser)
       IN  hook' = [token |-> IF storedToken # Null /\ storedToken # EmptyToken
                              THEN storedToken ELSE hook.token,
                    user |-> IF storedUser # Null /\ parsed.t = "return"
                             THEN parsed.res ELSE hook.user,
                    mounted |-> TRUE]
    /\ UNCHANGED <<serverVars, uiVars, now, cookie, cookieExp, localStorage, discarded, nav>>

(* the effect run once when the component mounts *)
Mount ==
    /\ ~hook.mounted
    /\ LET storedToken == localStorage.authToken
           storedUser == localStorage.user
           parsed == IF storedUser = Null THEN Throw(SyntaxError) ELSE JsonParse(storedUser)
       IN  /\ hook' = [token |-> IF storedToken # Null /\ storedToken # EmptyToken
                                 THEN storedToken ELSE hook.token,
                       user |-> IF storedUser # Null /\ parsed.t = "return"
                                THEN parsed.res ELSE hook.user,
                       mounted |-> TRUE]
           /\ localStorage' = IF storedUser # Null /\ parsed.t = "throw"
                              THEN [localStorage EXCEPT !.user = Null]
                              ELSE localStorage
    /\ UNCHANGED <<serverVars, uiVars, now, cookie, cookieExp, discarded, nav>>

(* the page is reloaded or closed: the React state is lost *)
Unmount ==
    /\ hook.mounted
    /\ hook' = [token |-> Null, user |-> Null, mounted |-> FALSE]
    /\ UNCHANGED <<serverVars, uiVars, now, cookie, cookieExp, localStorage, discarded, nav>>

(* how the browser takes the writes of login: localStorage.setItem throws  *)
(* when the storage is full or refused, at the first or at the second      *)
(* write; an assignment to document.cookie the browser refuses is dropped  *)
(* without an exception                                                    *)
StorageOutcomes == {"ok", "throwsAtToken", "throwsAtUser"}
CookieOutcomes == {"ok", "dropped"}

HookLoginWith_noCookie(token, userData, storage, jar) ==
    /\ hook.mounted
    /\ localStorage' =
          CASE storage = "ok" -> [authToken |-> token, user |-> JsonStringify(userData)]
            [] storage = "throwsAtUser" -> [localStorage EXCEPT !.authToken = token]
            [] storage = "throwsAtToken" -> localStorage
    /\ hook' = IF storage = "ok"
               THEN [hook EXCEPT !.token = token, !.user = userData]
               ELSE hook
    /\ UNCHANGED <<serverVars, uiVars, now, cookie, cookieExp, discarded, nav>>

(* login: two setItem, setAuthCookie, setToken, setUser, in this order and *)
(* with no try/catch: an exception ends the call where it is thrown        *)
HookLoginWith(token, userData, storage, jar) ==
    /\ hook.mounted
    /\ localStorage' =
          CASE storage = "ok" -> [authToken |-> token, user |-> JsonStringify(userData)]
            [] storage = "throwsAtUser" -> [localStorage EXCEPT !.authToken = token]
            [] storage = "throwsAtToken" -> localStorage
    /\ cookie' = IF storage = "ok" /\ jar = "ok" THEN token ELSE cookie
    /\ cookieExp' = IF storage = "ok" /\ jar = "ok"
                    THEN now + COOKIE_EXPIRY_DAYS ELSE cookieExp
    /\ hook' = IF storage = "ok"
               THEN [hook EXCEPT !.token = token, !.user = userData]
               ELSE hook
    /\ UNCHANGED <<serverVars, uiVars, now, discarded, nav>>

(* login in a browser that takes every write *)
HookLogin(token, userData) == HookLoginWith(token, userData, "ok", "ok")

HookLogout_keepCookie ==
    /\ hook.mounted
    /\ localStorage' = [authToken |-> Null, user |-> Null]
    /\ hook' = [hook EXCEPT !.token = Null, !.user = Null]
    /\ discarded' = IF hook.token # Null THEN discarded \cup {hook.token} ELSE discarded
    /\ LET request == [url |-> Url(P_root, <<>>), cookies |-> [authToken |-> cookie]]
       IN  nav' = [request |-> request, stored |-> Null, response |-> middleware(request)]
    /\ UNCHANGED <<serverVars, uiVars, now, cookie, cookieExp>>

(* logout ends with router.push('/'), a navigation to the home page *)
HookLogout ==
    /\ hook.mounted
    /\ localStorage' = [authToken |-> Null, user |-> Null]
    /\ cookie' = Null
    /\ cookieExp' = 0
    /\ hook' = [hook EXCEPT !.token = Null, !.user = Null]
    /\ discarded' = IF hook.token # Null THEN discarded \cup {hook.token} ELSE discarded
    /\ LET request == [url |-> Url(P_root, <<>>), cookies |-> [authToken |-> Null]]
       IN  nav' = [request |-> request, stored |-> Null, response |-> middleware(request)]
    /\ UNCHANGED <<serverVars, uiVars, now>>

isAuthenticated_tokenOnly == hook.token # Null /\ hook.token # EmptyToken

isAuthenticated == hook.token # Null /\ hook.token # EmptyToken /\ hook.user # Null

(* whoever holds the browser can put any value in the cookie jar *)
SetCookie(value) ==
    /\ cookie' = value
    /\ cookieExp' = now + COOKIE_EXPIRY_DAYS
    /\ UNCHANGED <<serverVars, uiVars, now, localStorage, hook, discarded, nav>>

(* localStorage is held by the client: the hook finds in it whatever was   *)
(* left there, by itself or by anything else running in the page           *)
StoredTokens == {Null, EmptyToken}
StoredUsers == {Null, Garbled}

StorageEdit(key, value) ==
    /\ localStorage' = [localStorage EXCEPT ![key] = value]
    /\ UNCHANGED <<serverVars, uiVars, now, cookie, cookieExp, hook, discarded, nav>>

(* useApi: the state starts loading; an effect is one run of the effect    *)
(* function, with its own isMounted flag                                   *)
InitApi ==
    [mounted |-> FALSE, current |-> 0, writer |-> 0,
     state |-> [data |-> Null, loading |-> TRUE, error |-> Null],
     effects |-> <<>>]

(* useForm: errors is the set of <<field, message>> entries of the errors   *)
(* object; call is the promise handleSubmit returned last                  *)
InitForm ==
    [values |-> "initialValues", errors |-> {}, isSubmitting |-> FALSE,
     onSubmit |-> "idle", call |-> "none"]

(* Time *)

Tick ==
    /\ now < MaxTime
    /\ now' = now + 1
    /\ cookie' = IF cookie # Null /\ now + 1 >= cookieExp THEN Null ELSE cookie
    /\ cookieExp' = IF cookie # Null /\ now + 1 >= cookieExp THEN 0 ELSE cookieExp
    /\ UNCHANGED <<serverVars, uiVars, localStorage, hook, discarded, nav>>

(* Initial states *)

InitServer ==
    /\ env \in [JWT_SECRET : Secrets, NODE_ENV : NodeEnvs]
    /\ users = {}
    /\ posts = {}
    /\ reqs = [r \in ReqIds |-> IdleReq]
    /\ issued = {}

InitClient ==
    /\ cookie = Null
    /\ cookieExp = 0
    /\ localStorage = [authToken |-> Null, user |-> Null]
    /\ hook = [token |-> Null, user |-> Null, mounted |-> FALSE]
    /\ discarded = {}
    /\ nav = Null
    /\ api = InitApi
    /\ form = InitForm
    /\ pag = Null

Init ==
    /\ now = 0
    /\ InitServer
    /\ InitClient

(* Concurrent signup and login requests: any interleaving of the handler  *)
(* segments of NumReqs requests, the store failing at will                 *)
RaceSignupBodies ==
    { [name |-> N_jo, email |-> E_a, password |-> P_1],
      [name |-> N_jo, email |-> E_A, password |-> P_2],
      [name |-> N_short, email |-> E_bad, password |-> P_weak] }

RaceLoginBodies ==
    { [email |-> E_A, password |-> P_1],
      [email |-> E_b, password |-> P_1] }

StoreOutcomes == {"ok", "down"}

Next ==
    \E r \in ReqIds :
        \/ \E body \in RaceSignupBodies : ReceiveSignup(r, body)
        \/ SignupValidate(r)
        \/ \E db \in StoreOutcomes : SignupFind(r, db)
        \/ \E db \in StoreOutcomes : SignupCreate(r, db)
        \/ \E body \in RaceLoginBodies : ReceiveLogin(r, body)
        \/ LoginValidate(r)
        \/ \E db \in StoreOutcomes : LoginFind(r, db)

Spec == Init /\ [][Next]_vars

(* One request at a time, every handler, every input, the store failing   *)
(* at will; the clock stands still                                         *)
Solo == {CHOOSE r \in ReqIds : \A q \in ReqIds : r <= q}

NextApi ==
    \E r \in Solo :
        \/ \E body \in SignupBodies : ReceiveSignup(r, body)
        \/ SignupValidate(r)
        \/ \E db \in DbOutcomes : SignupFind(r, db)
        \/ \E db \in DbOutcomes : SignupCreate(r, db)
        \/ \E body \in LoginBodies : ReceiveLogin(r, body)
        \/ LoginValidate(r)
        \/ \E db \in DbOutcomes : LoginFind(r, db)
        \/ \E headers \in PostHeaders \cup OddHeaders, body \in PostBodies :
              PostAuth(r, headers, body)
        \/ PostValidate(r)
        \/ \E db \in DbOutcomes : PostCreate(r, db)

SpecApi == Init /\ [][NextApi]_vars

(* The life of a token: it is issued at signup or login, presented to      *)
(* POST /api/posts as days pass, and dropped by the client at logout.      *)
(* The page is mounted over empty browser storage.                         *)
MaxTokens == 1

TokenSignupBodies == {[name |-> N_jo, email |-> E_a, password |-> P_1]}
TokenLoginBodies == {[email |-> E_a, password |-> P_1]}
TokenPostBodies ==
    {[title |-> T_ok, description |-> D_ok, type |-> "offer", category |-> "goods"]}

Granted(r) ==
    /\ reqs[r].kind \in {"signup", "login"}
    /\ reqs[r].pc = "done"
    /\ reqs[r].res.body.success

InitToken ==
    /\ now = 0
    /\ env \in [JWT_SECRET : Secrets, NODE_ENV : {"production"}]
    /\ users = {}
    /\ posts = {}
    /\ reqs = [r \in ReqIds |-> IdleReq]
    /\ issued = {}
    /\ cookie = Null
    /\ cookieExp = 0
    /\ localStorage = [authToken |-> Null, user |-> Null]
    /\ hook = [token |-> Null, user |-> Null, mounted |-> TRUE]
    /\ discarded = {}
    /\ nav = Null
    /\ api = InitApi
    /\ form = InitForm
    /\ pag = Null

NextToken ==
    \/ \E r \in Solo :
        \/ /\ Cardinality(issued) < MaxTokens
           /\ \E body \in TokenSignupBodies : ReceiveSignup(r, body)
        \/ SignupValidate(r)
        \/ SignupFind(r, "ok")
        \/ SignupCreate(r, "ok")
        \/ /\ Cardinality(issued) < MaxTokens
           /\ \E body \in TokenLoginBodies : ReceiveLogin(r, body)
        \/ LoginValidate(r)
        \/ LoginFind(r, "ok")
        \/ \E headers \in PostHeaders, body \in TokenPostBodies : PostAuth(r, headers, body)
        \/ PostValidate(r)
        \/ PostCreate(r, "ok")
        \/ /\ Granted(r)
           /\ HookLogin(reqs[r].res.body.data.token, reqs[r].res.body.data.user)
    \/ HookLogout
    \/ Tick

SpecToken == InitToken /\ [][NextToken]_vars

(* The verifier over the days: a token is issued at signup and any         *)
(* presentable token is sent to POST /api/posts as time passes             *)
NextVerify ==
    \/ \E r \in Solo :
        \/ /\ Cardinality(issued) < MaxTokens
           /\ \E body \in TokenSignupBodies : ReceiveSignup(r, body)
        \/ SignupValidate(r)
        \/ SignupFind(r, "ok")
        \/ SignupCreate(r, "ok")
        \/ \E headers \in PostHeaders, body \in TokenPostBodies : PostAuth(r, headers, body)
        \/ PostValidate(r)
        \/ PostCreate(r, "ok")
    \/ Tick

SpecVerify == InitToken /\ [][NextVerify]_vars

(* The browser session and the Route Gate *)
SampleUser == [id |-> 1, email |-> E_a, name |-> N_jo]
SampleToken ==
    Jwt([id |-> 1, email |-> E_a, iat |-> 0, exp |-> TOKEN_EXPIRY_DAYS], "s1")

GateUrls ==
    {Url(p, <<>>) : p \in {P_root, P_login, P_posts, P_create, P_createNew, P_creator,
                           P_Create, P_profile, P_messages, P_dashboard}}
    \cup {Url(P_create, <<"?", "x">>)}

InitGate ==
    /\ now = 0
    /\ env = [JWT_SECRET |-> "s1", NODE_ENV |-> "production"]
    /\ users = {}
    /\ posts = {}
    /\ reqs = [r \in ReqIds |-> IdleReq]
    /\ issued = {}
    /\ InitClient

NextGate ==
    \/ Mount
    \/ Unmount
    \/ HookLogin(SampleToken, SampleUser)
    \/ HookLogout
    \/ \E value \in {Garbage, EmptyToken} : SetCookie(value)
    \/ \E url \in GateUrls : Navigate(url)
    \/ Tick

SpecGate == InitGate /\ [][NextGate]_vars

(* Signup payloads through the validator: every combination of character   *)
(* classes in the password, short and long, and addresses written in       *)
(* several ways                                                            *)
CharClasses == {"upper", "lower", "digit", "special"}

(* a password with one character of each class in `classes` and no other   *)
(* class, padded to 8 characters when `long`                               *)
PasswordOf(classes, long) ==
    LET base == (IF "upper" \in classes THEN <<"A">> ELSE <<>>)
                \o (IF "lower" \in classes THEN <<"b">> ELSE <<>>)
                \o (IF "digit" \in classes THEN <<"1">> ELSE <<>>)
                \o (IF "special" \in classes THEN <<"!">> ELSE <<>>)
        pad == IF base = <<>> THEN "#" ELSE base[1]
    IN  IF long THEN base \o [i \in 1..(8 - Len(base)) |-> pad] ELSE base

Passwords == {PasswordOf(classes, long) : classes \in SUBSET CharClasses, long \in BOOLEAN}

E_jo == <<"j", "o", "@", "t", "e", "s", "t", ".", "c", "o", "m">>
E_Jo == <<"J", "o", "@", "T", "e", "s", "t", ".", "c", "o", "m">>
E_JoSpace == E_Jo \o <<" ">>
E_SpaceA == <<" ">> \o E_A

ValidateEmails == {E_a, E_A, E_jo, E_Jo, E_JoSpace, E_SpaceA, E_bad}

ValidateBodies ==
    {[name |-> n, email |-> e, password |-> p] :
        n \in {N_jo, N_short}, e \in ValidateEmails, p \in Passwords}

NextValidate ==
    \E r \in Solo :
        \/ \E body \in ValidateBodies : ReceiveSignup(r, body)
        \/ SignupValidate(r)
        \/ SignupFind(r, "ok")
        \/ SignupCreate(r, "ok")

InitValidate ==
    /\ now = 0
    /\ env \in [JWT_SECRET : {"s1"}, NODE_ENV : {"development", "production"}]
    /\ users = {}
    /\ posts = {}
    /\ reqs = [r \in ReqIds |-> IdleReq]
    /\ issued = {}
    /\ InitClient

SpecValidate == InitValidate /\ [][NextValidate]_vars

(* The session hook in a browser whose storage and cookie jar may refuse   *)
(* writes, over a client-held store that may hold anything                 *)
SessionUrls == {Url(p, <<>>) : p \in {P_root, P_posts, P_create, P_profile}}

NextSession ==
    \/ Mount
    \/ Unmount
    \/ \E storage \in StorageOutcomes, jar \in CookieOutcomes :
          HookLoginWith(SampleToken, SampleUser, storage, jar)
    \/ HookLogout
    \/ \E value \in StoredTokens : StorageEdit("authToken", value)
    \/ \E value \in StoredUsers \cup {JsonStringify(SampleUser)} : StorageEdit("user", value)
    \/ \E url \in SessionUrls : Navigate(url)
    \/ Tick

SpecSession == InitGate /\ [][NextSession]_vars

(* Page loads over a store whose user entry may have been damaged *)
NextLoad ==
    \/ Mount
    \/ Unmount
    \/ HookLogin(SampleToken, SampleUser)
    \/ HookLogout
    \/ StorageEdit("user", Garbled)
    \/ Tick

SpecLoad == InitGate /\ [][NextLoad]_vars

(* Navigations with any cookie, redirects being followed *)
FollowUrls ==
    {Url(p, <<>>) : p \in {P_root, P_posts, P_create, P_createNew, P_profile,
                           P_messages, P_dashboard}}

NextFollow ==
    \/ Mount
    \/ HookLogin(SampleToken, SampleUser)
    \/ HookLogout
    \/ \E value \in {Garbage, EmptyToken} : SetCookie(value)
    \/ \E url \in FollowUrls : Navigate(url)
    \/ FollowRedirect
    \/ Tick

SpecFollow == InitGate /\ [][NextFollow]_vars

(* A session from empty: logins, logouts, page reloads, navigations and    *)
(* the passage of time, in a browser that takes every write                *)
NextReload ==
    \/ Mount
    \/ Unmount
    \/ HookLogin(SampleToken, SampleUser)
    \/ HookLogout
    \/ \E url \in SessionUrls : Navigate(url)
    \/ Tick

SpecReload == InitGate /\ [][NextReload]_vars

(* ---------------------------------------------------------------------- *)
(* Claims                                                                  *)
(* ---------------------------------------------------------------------- *)

Done(r, kind) == reqs[r].kind = kind /\ reqs[r].pc = "done"

IsEnvelope(res, status, code) ==
    /\ res.status = status
    /\ res.body.success = FALSE
    /\ res.body.code = code
    /\ res.body.status = status

(* a finished signup that passed validation, with no store outage and a    *)
(* signing secret configured                                               *)
CleanSignup(r) ==
    /\ Done(r, "signup")
    /\ reqs[r].locals # Null
    /\ reqs[r].exc \notin {StoreError, SecretError}

(* C3: of two signup requests with the same normalized email, not both of  *)
(* which found the email already registered, exactly one succeeds (201)    *)
(* and the other receives {success:false, code:"CONFLICT", status:409}.    *)
C3_OneSucceedsOtherConflict ==
    \A r1, r2 \in ReqIds :
        ( /\ r1 # r2
          /\ CleanSignup(r1) /\ CleanSignup(r2)
          /\ reqs[r1].locals.email = reqs[r2].locals.email
          /\ ~(reqs[r1].res.status = HTTP_CONFLICT /\ reqs[r2].res.status = HTTP_CONFLICT) )
        => \/ /\ reqs[r1].res.status = HTTP_CREATED
              /\ IsEnvelope(reqs[r2].res, HTTP_CONFLICT, "CONFLICT")
           \/ /\ reqs[r2].res.status = HTTP_CREATED
              /\ IsEnvelope(reqs[r1].res, HTTP_CONFLICT, "CONFLICT")

(* C4: in every reachable state no two credential records have the same    *)
(* email, whatever the interleaving of the signup requests.                *)
C4_UniqueEmails ==
    \A u1, u2 \in users : u1.email = u2.email => u1 = u2

(* a signup passed the handler's pre-check, and the store rejected its     *)
(* insert because the email had been registered in between                 *)
C4_Witness ==
    \E r \in ReqIds :
        /\ Done(r, "signup")
        /\ reqs[r].exc = UniqueViolation
        /\ \E u \in users : u.email = reqs[r].locals.email

(* a finished login with a well-formed email and a non-empty password that *)
(* did not match: no such user, or a user with another password            *)
FailedLogin(r) ==
    /\ Done(r, "login")
    /\ reqs[r].locals # Null
    /\ Has(reqs[r].locals, "user")
    /\ reqs[r].exc = Null
    /\ \/ reqs[r].locals.user = Null
       \/ ~bcryptCompare(reqs[r].locals.data.password, reqs[r].locals.user.password)

Wording(res) ==
    [status |-> res.status, success |-> res.body.success,
     error |-> res.body.error, code |-> res.body.code]

(* C5: a login whose password does not match returns status 401, success   *)
(* false and "Invalid email or password", and two such logins, one for an  *)
(* email with no user and one for an existing user, get the same status,   *)
(* wording and code.                                                       *)
C5_NoUserEnumeration ==
    /\ \A r \in ReqIds :
          FailedLogin(r) =>
             /\ IsEnvelope(reqs[r].res, HTTP_UNAUTHORIZED, "UNAUTHORIZED")
             /\ reqs[r].res.body.error = INVALID_CREDENTIALS
    /\ \A r1, r2 \in ReqIds :
          FailedLogin(r1) /\ FailedLogin(r2) => Wording(reqs[r1].res) = Wording(reqs[r2].res)

C5_Witness ==
    \E r1, r2 \in ReqIds :
        /\ FailedLogin(r1) /\ reqs[r1].locals.user = Null
        /\ FailedLogin(r2) /\ reqs[r2].locals.user # Null
        /\ reqs[r1].res.status = HTTP_UNAUTHORIZED
        /\ reqs[r2].res.status = HTTP_UNAUTHORIZED

(* the token of an Authorization header that reads "Bearer <token>" *)
BearerToken(headers) ==
    IF headers.authorization # Null /\ headers.authorization.prefix = BearerPrefix
    THEN headers.authorization.token
    ELSE Null

(* the day on which a post request was authenticated: the handler's first  *)
(* step, which either lets the request on or answers it                    *)
AuthDay(r) ==
    IF reqs[r].locals # Null THEN reqs[r].locals.authAt ELSE reqs[r].res.body.timestamp

(* full verification, stated without the verifier: the token is one the    *)
(* issuer signed, unaltered, and the day is before its expiry              *)
FullyVerified(headers, day) ==
    /\ BearerToken(headers) \in issued
    /\ day < BearerToken(headers).payload.exp

(* C1: a post is created only by a request whose Bearer token passes full  *)
(* verification; a request with no token or with a token that fails        *)
(* verification gets the 401 UNAUTHORIZED envelope and goes no further.    *)
C1_PostsNeedVerifiedToken ==
    /\ [](\A r \in ReqIds :
            reqs[r].kind = "post" =>
               IF FullyVerified(reqs[r].headers, AuthDay(r))
               THEN reqs[r].locals # Null
               ELSE /\ reqs[r].locals = Null
                    /\ reqs[r].pc = "done"
                    /\ IsEnvelope(reqs[r].res, HTTP_UNAUTHORIZED, "UNAUTHORIZED"))
    /\ [][posts' # posts =>
            \E r \in ReqIds :
                /\ reqs[r].kind = "post" /\ reqs[r].pc = "create"
                /\ FullyVerified(reqs[r].headers, reqs[r].locals.authAt)
                /\ reqs'[r].pc = "done" /\ reqs'[r].res.status = HTTP_CREATED]_vars

(* a post exists, and a request carrying a non-empty token that is no      *)
(* verified token (forged, altered or expired) was answered 401            *)
C1_Witness ==
    /\ posts # {}
    /\ \E r \in ReqIds :
          /\ Done(r, "post")
          /\ BearerToken(reqs[r].headers) # Null
          /\ BearerToken(reqs[r].headers).kind = "jwt"
          /\ reqs[r].res.status = HTTP_UNAUTHORIZED

IsProtected(pathname) ==
    pathname \in {P_create, P_createNew, P_creator, P_profile, P_messages, P_dashboard}

NoCookie(record) ==
    record.request.cookies.authToken \in {Null, EmptyToken}

(* C2: a navigation to a protected path is redirected to /login, with no   *)
(* return-to target, when the authToken cookie is absent or empty, and     *)
(* passes with any non-empty cookie value; a navigation to any other path  *)
(* passes.                                                                 *)
C2_GateDecision ==
    nav # Null =>
       IF IsProtected(nav.request.url.pathname) /\ NoCookie(nav)
       THEN nav.response = Redirect(Url(P_login, <<>>))
       ELSE nav.response = PassThrough

(* a protected path reached with a cookie that full verification rejects *)
C2_Witness ==
    /\ nav # Null
    /\ IsProtected(nav.request.url.pathname)
    /\ nav.request.cookies.authToken = Garbage
    /\ ~verifyToken(nav.request.cookies.authToken).success
    /\ nav.response = PassThrough

(* C6: a token verified on the day it was issued is valid and yields the   *)
(* id and email it was issued for; verified on or after the day its 7-day  *)
(* window ends it is invalid, the reason being that it has expired.        *)
C6_VerifyAfterIssue ==
    /\ \A token \in issued :
          /\ now = token.payload.iat =>
                /\ verifyToken(token).success
                /\ \E u \in users : /\ u.id = verifyToken(token).user.id
                                    /\ u.email = verifyToken(token).user.email
          /\ now >= token.payload.iat + TOKEN_EXPIRY_DAYS =>
                verifyToken(token) = AuthFailure("Token has expired")
    /\ \A r \in ReqIds :
          Granted(r) /\ now = reqs[r].res.body.data.token.payload.iat =>
             /\ verifyToken(reqs[r].res.body.data.token).user.id
                   = reqs[r].res.body.data.user.id
             /\ verifyToken(reqs[r].res.body.data.token).user.email
                   = reqs[r].res.body.data.user.email

(* an issued token was presented after its window and refused as expired *)
C6_Witness ==
    \E r \in ReqIds :
        /\ Done(r, "post")
        /\ BearerToken(reqs[r].headers) \in issued
        /\ now >= BearerToken(reqs[r].headers).payload.exp
        /\ reqs[r].res.status = HTTP_UNAUTHORIZED
        /\ reqs[r].res.body.error = "Token has expired"

(* C7: whether the API accepts an issued token depends only on the day:    *)
(* it is accepted exactly when presented before its expiry, whether or not *)
(* the client has logged out, and the server keeps no record of tokens.    *)
C7_Stateless ==
    \A r \in ReqIds :
        (reqs[r].kind = "post" /\ BearerToken(reqs[r].headers) \in issued) =>
           /\ reqs[r].locals # Null <=> AuthDay(r) < BearerToken(reqs[r].headers).payload.exp
           /\ reqs[r].locals # Null =>
                 reqs[r].locals.user = BearerToken(reqs[r].headers).payload

(* a post was created with a token the client had dropped at logout *)
C7_Witness ==
    \E r \in ReqIds :
        /\ Done(r, "post")
        /\ reqs[r].afterLogout
        /\ hook.token = Null /\ cookie = Null /\ localStorage.authToken = Null
        /\ reqs[r].res.status = HTTP_CREATED

(* C8: the gate's decision is a function of the path and the cookie: two   *)
(* navigations with the same URL and cookie get the same decision whatever *)
(* localStorage holds, and a token held only in localStorage never gets a  *)
(* navigation to a protected path through.                                 *)
C8_CookieOnly ==
    /\ [][(nav # Null /\ nav' # Null /\ nav'.request = nav.request)
             => nav'.response = nav.response]_vars
    /\ [](nav # Null /\ nav.stored # Null /\ NoCookie(nav)
             /\ IsProtected(nav.request.url.pathname)
          => nav.response.type = "redirect")

C8_Witness ==
    /\ nav # Null
    /\ nav.stored = SampleToken
    /\ nav.request.cookies.authToken = Null
    /\ IsProtected(nav.request.url.pathname)
    /\ nav.response.type = "redirect"

(* C9: an exception thrown by a wrapped route handler never leaves the     *)
(* wrapper: the request is answered with the internal-error envelope       *)
(* (success false, INTERNAL_ERROR, 500, the generic message) whatever the  *)
(* exception was.                                                          *)
C9_ExceptionsCaught ==
    \A r \in ReqIds :
        /\ reqs[r].pc # "crashed"
        /\ reqs[r].exc # Null =>
              /\ reqs[r].pc = "done"
              /\ IsEnvelope(reqs[r].res, HTTP_INTERNAL_SERVER_ERROR, "INTERNAL_ERROR")
              /\ reqs[r].res.body.error = INTERNAL_SERVER_ERROR

C9_Witness ==
    \E r \in ReqIds :
        /\ reqs[r].pc = "done"
        /\ reqs[r].exc = SecretError
        /\ reqs[r].res.status = HTTP_INTERNAL_SERVER_ERROR

(* C10: an error body carries details only outside production; in          *)
(* production it has no details field and never the text of the exception. *)
C10_NoDetailsInProduction ==
    \A r \in ReqIds :
        (reqs[r].res # Null /\ ~reqs[r].res.body.success) =>
           /\ Has(reqs[r].res.body, "details") => env.NODE_ENV # "production"
           /\ env.NODE_ENV = "production" =>
                 /\ DOMAIN reqs[r].res.body
                       = {"success", "error", "code", "status", "timestamp"}
                 /\ reqs[r].exc # Null => reqs[r].res.body.error # reqs[r].exc.message

(* in production an exception was answered with a body that has no        *)
(* details field                                                           *)
C10_Witness ==
    /\ env.NODE_ENV = "production"
    /\ \E r \in ReqIds :
          /\ reqs[r].pc = "done"
          /\ reqs[r].exc # Null
          /\ ~Has(reqs[r].res.body, "details")

SchemaOf(kind) ==
    CASE kind = "signup" -> "signup"
      [] kind = "login" -> "login"
      [] kind = "post" -> "createPost"

(* a finished request whose payload was read and did not pass its schema;  *)
(* a create-post request gets that far only once authenticated             *)
ValidationFailed(r) ==
    /\ reqs[r].kind \in {"signup", "login", "post"}
    /\ reqs[r].pc = "done"
    /\ reqs[r].exc = Null
    /\ reqs[r].body # Malformed
    /\ reqs[r].kind = "post" => reqs[r].locals # Null
    /\ ~validateInput(SchemaOf(reqs[r].kind), reqs[r].body).success

FieldErrors(r) == validateInput(SchemaOf(reqs[r].kind), reqs[r].body).errors

(* C11 as stated: whenever validation of a signup, login or create-post    *)
(* payload fails, the response has status 400, code VALIDATION_ERROR and   *)
(* carries the field-to-message mapping as {validationErrors: {...}}.      *)
C11_ValidationEnvelope ==
    \A r \in ReqIds :
        ValidationFailed(r) =>
           /\ IsEnvelope(reqs[r].res, HTTP_BAD_REQUEST, "VALIDATION_ERROR")
           /\ Has(reqs[r].res.body, "details")
           /\ reqs[r].res.body.details = [validationErrors |-> FieldErrors(r)]

(* C11 amended: whenever validation of a signup, login or create-post      *)
(* payload fails, the response has status 400 and code VALIDATION_ERROR;   *)
(* it carries the mapping as {validationErrors: {...}} when NODE_ENV is    *)
(* development and has no details field otherwise.                         *)
C11_ValidationEnvelopeInDevelopment ==
    \A r \in ReqIds :
        ValidationFailed(r) =>
           /\ IsEnvelope(reqs[r].res, HTTP_BAD_REQUEST, "VALIDATION_ERROR")
           /\ reqs[r].res.body.error = INVALID_INPUT
           /\ IF env.NODE_ENV = "development"
              THEN /\ Has(reqs[r].res.body, "details")
                   /\ reqs[r].res.body.details = [validationErrors |-> FieldErrors(r)]
              ELSE ~Has(reqs[r].res.body, "details")

(* in development a create-post payload failed validation and the answer   *)
(* names its fields                                                        *)
C11_Witness ==
    /\ env.NODE_ENV = "development"
    /\ \E r \in ReqIds :
          /\ ValidationFailed(r)
          /\ reqs[r].kind = "post"
          /\ Has(reqs[r].res.body, "details")
          /\ DOMAIN reqs[r].res.body.details.validationErrors = {"title", "type", "category"}

(* a signup whose payload the validator has been through *)
Validated(r) == reqs[r].kind = "signup" /\ reqs[r].pc # "json"

(* the validator's verdict on it: the payload went on to the handler, or   *)
(* it was answered with the field errors                                   *)
Accepted(r) == Validated(r) /\ reqs[r].locals # Null

RuleMessages ==
    [length |-> "Password must be at least 8 characters long",
     upper |-> "Password must contain at least one uppercase letter",
     lower |-> "Password must contain at least one lowercase letter",
     digit |-> "Password must contain at least one number",
     special |-> "Password must contain at least one special character (@$!%*?&)"]

(* the policy rules a password breaks, stated on the password itself *)
BrokenRules(p) ==
    {rule \in DOMAIN RuleMessages :
        \/ rule = "length" /\ Len(p) < 8
        \/ rule = "upper" /\ ~\E i \in 1..Len(p) : p[i] \in {"A", "B", "J", "T", "X"}
        \/ rule = "lower" /\ ~\E i \in 1..Len(p) : p[i] \in {"a", "b", "c", "d", "e", "f"}
        \/ rule = "digit" /\ ~\E i \in 1..Len(p) : p[i] \in {"1", "2"}
        \/ rule = "special" /\ ~\E i \in 1..Len(p) : p[i] \in {"@", "$", "!", "%", "*", "?", "&"}}

(* the messages a failure reports for a field *)
Reported(r, field) ==
    LET errors == validateInput("signup", reqs[r].body).errors
    IN  IF field \in DOMAIN errors THEN {errors[field]} ELSE {}

(* C12: when a password breaks several policy rules at once, the           *)
(* validation failure reports every rule it breaks, not just one of them.  *)
C12_AllFailingRulesReported ==
    \A r \in ReqIds :
        (Validated(r) /\ Cardinality(BrokenRules(reqs[r].body.password)) > 1) =>
           /\ ~Accepted(r)
           /\ \A rule \in BrokenRules(reqs[r].body.password) :
                 RuleMessages[rule] \in Reported(r, "password")

(* addresses as written in a payload, with the address each one writes *)
Writings ==
    { [raw |-> E_a, address |-> E_a], [raw |-> E_A, address |-> E_a],
      [raw |-> E_jo, address |-> E_jo], [raw |-> E_Jo, address |-> E_jo],
      [raw |-> E_JoSpace, address |-> E_jo], [raw |-> E_SpaceA, address |-> E_a] }

(* C13: a signup payload with a valid name and password whose email is an  *)
(* address in any letter case and with surrounding whitespace validates,   *)
(* and the returned email is the lowercased, trimmed address.              *)
C13_EmailNormalized ==
    \A r \in ReqIds : \A w \in Writings :
        ( /\ Validated(r)
          /\ reqs[r].body.name = N_jo
          /\ BrokenRules(reqs[r].body.password) = {}
          /\ reqs[r].body.email = w.raw )
        => /\ Accepted(r)
           /\ reqs[r].locals.email = w.address

MissingClasses(p) == BrokenRules(p) \ {"length"}

(* C14: a signup whose password lacks a required character class never     *)
(* validates: the result is a failure whose error mapping has a message    *)
(* under the key "password".                                               *)
C14_MissingClassRejected ==
    \A r \in ReqIds :
        (Validated(r) /\ MissingClasses(reqs[r].body.password) # {}) =>
           /\ ~Accepted(r)
           /\ reqs[r].pc = "done"
           /\ reqs[r].res.status = HTTP_BAD_REQUEST
           /\ ~validateInput("signup", reqs[r].body).success
           /\ \E rule \in MissingClasses(reqs[r].body.password) :
                 Reported(r, "password") = {RuleMessages[rule]}
           /\ env.NODE_ENV = "development" =>
                 reqs[r].res.body.details.validationErrors.password
                    \in Reported(r, "password")

(* an otherwise valid payload whose 8-character password lacks only the    *)
(* digit was refused                                                       *)
C14_Witness ==
    \E r \in ReqIds :
        /\ Validated(r)
        /\ reqs[r].body.name = N_jo /\ reqs[r].body.email = E_a
        /\ BrokenRules(reqs[r].body.password) = {"digit"}
        /\ reqs[r].pc = "done"
        /\ reqs[r].res.status = HTTP_BAD_REQUEST

(* C15: extract returns the text after the prefix when the authorization   *)
(* header starts with exactly "Bearer ", and null when the header is       *)
(* absent or its prefix is written otherwise; authenticate then returns a  *)
(* failure, the request is answered 401 and no exception is raised.        *)
C15_ExtractBearer ==
    \A r \in ReqIds :
        reqs[r].kind = "post" =>
           LET header == reqs[r].headers.authorization IN
           /\ (header # Null /\ header.prefix = <<"B", "e", "a", "r", "e", "r", " ">>) =>
                 extractToken(reqs[r].headers) = header.token
           /\ (header = Null \/ header.prefix \in OddPrefixes) =>
                 /\ extractToken(reqs[r].headers) = Null
                 /\ authenticateRequest(reqs[r].headers)
                       = [success |-> FALSE, error |-> "No authentication token provided"]
                 /\ reqs[r].pc = "done"
                 /\ reqs[r].exc = Null
                 /\ reqs[r].locals = Null
                 /\ IsEnvelope(reqs[r].res, HTTP_UNAUTHORIZED, "UNAUTHORIZED")
                 /\ reqs[r].res.body.error = "No authentication token provided"

(* a token the issuer signed, sent the same day under the scheme written   *)
(* "bearer ", was not read from the header                                 *)
C15_Witness ==
    \E r \in ReqIds :
        /\ Done(r, "post")
        /\ reqs[r].headers.authorization # Null
        /\ reqs[r].headers.authorization.prefix = LowerPrefix
        /\ reqs[r].headers.authorization.token \in issued
        /\ verifyToken(reqs[r].headers.authorization.token).success
        /\ reqs[r].res.status = HTTP_UNAUTHORIZED

(* a finished signup or login that got as far as issuing a token: the user *)
(* was created, or the password matched                                    *)
ReachedIssue(r) ==
    \/ /\ Done(r, "signup")
       /\ reqs[r].locals # Null
       /\ reqs[r].exc \notin {StoreError, Defect, UniqueViolation}
       /\ reqs[r].res.status # HTTP_CONFLICT
    \/ /\ Done(r, "login")
       /\ reqs[r].locals # Null
       /\ Has(reqs[r].locals, "user")
       /\ reqs[r].locals.user # Null
       /\ bcryptCompare(reqs[r].locals.data.password, reqs[r].locals.user.password)

(* C16: with the signing secret unset, issue throws the configuration      *)
(* error for every subject id and email and never returns a token; no      *)
(* token is ever signed with an empty or substitute secret.                *)
C16_NoTokenWithoutSecret ==
    /\ env.JWT_SECRET = "" =>
          /\ \A id \in 1..2 : \A email \in {E_a, E_b} :
                generateToken(id, email) = Throw(SecretError)
          /\ issued = {}
          /\ \A r \in ReqIds :
                ReachedIssue(r) =>
                   /\ reqs[r].exc = SecretError
                   /\ ~reqs[r].res.body.success
                   /\ ~Has(reqs[r].res.body, "data")
    /\ \A token \in issued :
          /\ env.JWT_SECRET # ""
          /\ token.sig = Sign(token.payload, env.JWT_SECRET)
    /\ \A r \in ReqIds :
          (reqs[r].res # Null /\ reqs[r].res.body.success /\ reqs[r].kind \in {"signup", "login"})
             => reqs[r].res.body.data.token \in issued

(* with no secret configured, a login with the right password ended in     *)
(* the configuration error                                                 *)
C16_Witness ==
    /\ env.JWT_SECRET = ""
    /\ \E r \in ReqIds :
          /\ Done(r, "login")
          /\ ReachedIssue(r)
          /\ reqs[r].exc = SecretError
          /\ reqs[r].res.status = HTTP_INTERNAL_SERVER_ERROR

(* why the verifier cannot accept a token, stated on the token itself *)
Cause(token, day) ==
    IF env.JWT_SECRET = "" THEN "no-secret"
    ELSE IF token.kind # "jwt" THEN "malformed"
    ELSE IF token \notin issued THEN "bad-signature"
    ELSE IF day >= token.payload.exp THEN "expired"
    ELSE "valid"

IsTyped(result) ==
    \/ DOMAIN result = {"success", "user"} /\ result.success = TRUE
    \/ DOMAIN result = {"success", "error"} /\ result.success = FALSE

(* the token of a post request that carried one, and the reason given when *)
(* it was refused                                                          *)
Refused(r) ==
    /\ Done(r, "post")
    /\ reqs[r].locals = Null
    /\ BearerToken(reqs[r].headers) \notin {Null, EmptyToken}

C18_IndependentWrites ==
    [][\A storage \in StorageOutcomes, jar \in CookieOutcomes :
          HookLoginWith(SampleToken, SampleUser, storage, jar) =>
             /\ jar = "ok" => cookie' = SampleToken
             /\ storage # "throwsAtToken" => localStorage'.authToken = SampleToken
             /\ storage = "ok" => localStorage'.user = JsonStringify(SampleUser)]_vars

ProtectedUrls == {Url(p, <<>>) : p \in {P_create, P_createNew, P_profile, P_messages, P_dashboard}}

(* C19: whatever logins and logouts came before, a logout leaves both      *)
(* channels cleared: no authToken cookie, neither authToken nor user in    *)
(* localStorage, isAuthenticated false; a navigation to a protected path   *)
(* made then is redirected to /login, and stays so until the next login.   *)
C19_LogoutClears ==
    /\ [][HookLogout =>
             /\ cookie' = Null
             /\ localStorage' = [authToken |-> Null, user |-> Null]
             /\ hook'.token = Null /\ hook'.user = Null
             /\ ~isAuthenticated'
             /\ \A url \in ProtectedUrls :
                   NavRecord(url)'.response = Redirect(Url(P_login, <<>>))]_vars
    /\ [][(cookie = Null /\ Navigate(Url(P_create, <<>>)))
             => nav'.response = Redirect(Url(P_login, <<>>))]_vars

(* after a login and then a logout, a navigation to /create was sent to    *)
(* /login                                                                  *)
C19_Witness ==
    /\ SampleToken \in discarded
    /\ cookie = Null
    /\ localStorage = [authToken |-> Null, user |-> Null]
    /\ ~isAuthenticated
    /\ nav # Null
    /\ nav.request.url.pathname = P_create
    /\ nav.response = Redirect(Url(P_login, <<>>))

Present(stored) == stored # Null /\ stored # EmptyToken

(* C20: isAuthenticated is true exactly when the hook holds both a token   *)
(* and a user summary.  What the hook holds after mounting is what the     *)
(* client-held store had: it is authenticated only if the store had a      *)
(* non-empty authToken and a user that parses; a store with only one of    *)
(* them, or with an unreadable user, gives a logged-out hook.  After a     *)
(* completed login it is authenticated, after a logout it is not.          *)
C20_AuthenticatedIffBoth ==
    /\ [](isAuthenticated <=> (Present(hook.token) /\ hook.user # Null))
    /\ [](~hook.mounted => ~isAuthenticated)
    /\ [][Mount =>
             /\ isAuthenticated' <=>
                   /\ Present(localStorage.authToken)
                   /\ localStorage.user = JsonStringify(SampleUser)
             /\ (Present(localStorage.authToken) /\ localStorage.user \in {Null, Garbled})
                   => hook'.token = localStorage.authToken /\ hook'.user = Null
                      /\ ~isAuthenticated'
             /\ (~Present(localStorage.authToken) /\ localStorage.user = JsonStringify(SampleUser))
                   => hook'.token = Null /\ hook'.user = SampleUser /\ ~isAuthenticated']_vars
    /\ [][HookLoginWith(SampleToken, SampleUser, "ok", "ok") => isAuthenticated']_vars
    /\ [][HookLogout => ~isAuthenticated']_vars

(* a mounted hook that loaded a token and no summary, and one that loaded  *)
(* a summary and no token, are both reachable; here the former             *)
C20_Witness ==
    /\ hook.mounted
    /\ hook.token = SampleToken
    /\ hook.user = Null
    /\ localStorage.authToken = SampleToken
    /\ ~isAuthenticated

(* C21 as stated: a stored user summary that fails to deserialize at load  *)
(* is treated as absent (user stays null, isAuthenticated false), the      *)
(* store is reset, and the load completes without an exception.            *)
C21_MalformedSummaryResetsStore ==
    [][(Mount /\ localStorage.user = Garbled) =>
          /\ hook'.mounted
          /\ hook'.user = Null
          /\ ~isAuthenticated'
          /\ localStorage' = [authToken |-> Null, user |-> Null]]_vars

(* C21 amended: a stored user summary that fails to deserialize at load    *)
(* is treated as absent (user stays null, isAuthenticated false), the      *)
(* malformed entry is removed from the store while a stored authToken is   *)
(* kept and loaded, and the load completes without an exception.           *)
C21_MalformedSummaryRemoved ==
    [][(Mount /\ localStorage.user = Garbled) =>
          /\ hook'.mounted
          /\ hook'.user = Null
          /\ ~isAuthenticated'
          /\ localStorage'.user = Null
          /\ localStorage'.authToken = localStorage.authToken
          /\ hook'.token = IF Present(localStorage.authToken)
                           THEN localStorage.authToken ELSE Null]_vars

(* the page loaded over a store holding a token and a damaged summary *)
C21_Witness ==
    /\ hook.mounted
    /\ hook.token = SampleToken
    /\ hook.user = Null
    /\ localStorage = [authToken |-> SampleToken, user |-> Null]

(* the address a payload's email writes, when it writes one *)
AddressOf(raw) ==
    IF \E w \in Writings : w.raw = raw
    THEN (CHOOSE w \in Writings : w.raw = raw).address
    ELSE Null

(* at its pre-check the signup's address already has a credential record *)
AlreadyRegistered(r) ==
    /\ reqs[r].kind = "signup"
    /\ reqs[r].pc = "find"
    /\ \E u \in users : u.email = AddressOf(reqs[r].body.email)

(* C22: a signup whose normalized email has a credential record when the   *)
(* handler looks it up is answered with the 409 CONFLICT envelope, unless  *)
(* the store is down; it creates and changes no record and issues no       *)
(* token.  No signup ever changes or removes an existing record.           *)
C22_DuplicateSignupConflict ==
    /\ [][\A r \in ReqIds :
             (AlreadyRegistered(r) /\ reqs'[r] # reqs[r]) =>
                /\ reqs'[r].pc = "done"
                /\ users' = users
                /\ issued' = issued
                /\ reqs'[r].exc = Null =>
                      /\ IsEnvelope(reqs'[r].res, HTTP_CONFLICT, "CONFLICT")
                      /\ ~Has(reqs'[r].res.body, "data")]_vars
    /\ [][users \subseteq users']_vars

(* a signup written "A@X.co" was answered 409 because a@x.co was there *)
C22_Witness ==
    \E r \in ReqIds :
        /\ Done(r, "signup")
        /\ reqs[r].body.email = E_A
        /\ reqs[r].res.status = HTTP_CONFLICT
        /\ \E u \in users : u.email = E_a

(* C23: signup is all-or-nothing: a signup request that ends with a        *)
(* non-success response (validation error, conflict or the 500 envelope)   *)
(* has created no credential record.                                       *)
C23_SignupAllOrNothing ==
    [][\A r \in ReqIds :
          ( /\ reqs[r].kind = "signup"
            /\ reqs[r].pc # "done"
            /\ reqs'[r].pc = "done"
            /\ ~reqs'[r].res.body.success )
          => users' = users]_vars

(* C24: a post created through POST /api/posts has as authorId the subject *)
(* id of the token the same request was authenticated with, whatever the   *)
(* request body holds; an authorId in the body is ignored.                 *)
C24_AuthorFromToken ==
    /\ [][\A r \in ReqIds :
             (reqs[r].kind = "post" /\ reqs[r].pc = "create" /\ posts' # posts
                /\ reqs'[r].pc = "done") =>
                \E post \in posts' \ posts :
                   /\ posts' = posts \cup {post}
                   /\ BearerToken(reqs[r].headers) \in issued
                   /\ post.authorId = BearerToken(reqs[r].headers).payload.id
                   /\ reqs'[r].res.body.data = post]_vars
    /\ [](\A r \in ReqIds :
            (Done(r, "post") /\ reqs[r].res.status = HTTP_CREATED) =>
               reqs[r].res.body.data.authorId = BearerToken(reqs[r].headers).payload.id)

(* a post was created from a body naming another existing user as author *)
C24_Witness ==
    \E r \in ReqIds :
        /\ Done(r, "post")
        /\ reqs[r].res.status = HTTP_CREATED
        /\ Has(reqs[r].body, "authorId")
        /\ reqs[r].body.authorId # BearerToken(reqs[r].headers).payload.id
        /\ \E u \in users : u.id = reqs[r].body.authorId
        /\ reqs[r].res.body.data \in posts

(* C25: the Route Gate produces no redirect loop: the redirect target is   *)
(* /login, which no protected prefix matches, so with any cookie (absent,  *)
(* empty, stale or garbage) the request that follows a redirect passes.    *)
C25_NoRedirectLoop ==
    /\ [](nav # Null /\ nav.response.type = "redirect" =>
            /\ nav.response.location.pathname = P_login
            /\ \A route \in protectedRoutes : ~StartsWith(P_login, route)
            /\ \A value \in {Null, EmptyToken, Garbage, SampleToken, cookie} :
                  middleware([url |-> nav.response.location,
                              cookies |-> [authToken |-> value]]) = PassThrough)
    /\ [][FollowRedirect => nav'.response = PassThrough]_vars

(* a navigation with an empty cookie was redirected, and the request for   *)
(* the target passed                                                       *)
C25_Witness ==
    /\ nav # Null
    /\ nav.request.url.pathname = P_login
    /\ nav.request.cookies.authToken = EmptyToken
    /\ nav.response = PassThrough

(* C26 as stated: in every state of a session made of logins, logouts,     *)
(* reloads and the passage of time, if isAuthenticated is true then the    *)
(* authToken cookie carries the token the client-held store holds, so a    *)
(* navigation to a protected path passes the Route Gate.                   *)
C26_AuthenticatedHasCookie ==
    isAuthenticated =>
       /\ cookie = localStorage.authToken
       /\ \A url \in ProtectedUrls : NavRecord(url).response = PassThrough

(* C26 amended: if isAuthenticated is true, the client-held store holds    *)
(* the hook's token, and until 7 days have passed since the last login the *)
(* authToken cookie carries that token, so a navigation to a protected     *)
(* path passes; the cookie of an authenticated session is lost only by the *)
(* clock reaching its expiry, after which isAuthenticated stays true with  *)
(* no cookie.                                                              *)
C26_CookieUntilExpiry ==
    /\ [](isAuthenticated =>
            /\ localStorage.authToken = hook.token
            /\ \/ cookie = Null
               \/ /\ cookie = hook.token
                  /\ now < cookieExp
                  /\ \A url \in ProtectedUrls : NavRecord(url).response = PassThrough)
    /\ [][HookLogin(SampleToken, SampleUser) =>
             /\ isAuthenticated'
             /\ cookie' = SampleToken
             /\ cookieExp' = now + 7]_vars
    /\ [][(isAuthenticated /\ cookie # Null /\ isAuthenticated' /\ cookie' = Null) =>
             /\ now' = now + 1
             /\ now' >= cookieExp]_vars

(* seven days after the login the hook is authenticated, the cookie is     *)
(* gone and /create was sent to /login                                     *)
C26_Witness ==
    /\ isAuthenticated
    /\ cookie = Null
    /\ localStorage.authToken = SampleToken
    /\ now >= 7
    /\ nav # Null
    /\ nav.request.url.pathname = P_create
    /\ nav.request.cookies.authToken = Null
    /\ nav.response.type = "redirect"

(***************************************************************************)
(* useApi (src/hooks/useApi.ts).  One component uses the hook.  Every run  *)
(* of the effect function is an entry of api.effects: the url it fetches,  *)
(* its own isMounted flag and how far its fetchData got.  api.current is   *)
(* the latest run; api.writer is the run whose completion wrote the state  *)
(* the component shows (0: the state useState started with).               *)
(***************************************************************************)
MaxFetches == 3

ApiUrls == {"/api/posts?page=1", "/api/posts?page=2"}

EffectIds == 1..Len(api.effects)

Payload(url) == [kind |-> "payload", from |-> url]

\* what res.json() can resolve to for a request of url: an envelope with the
\* payload under data, an envelope whose data is null, the bare payload, null
JsonBodies(url) ==
    { [kind |-> "envelope", data |-> Payload(url)],
      [kind |-> "envelope", data |-> Null],
      Payload(url),
      Null }

\* json?.data || json
dataOf(json) ==
    IF json # Null /\ json.kind = "envelope" /\ json.data # Null
    THEN json.data
    ELSE json

\* error instanceof Error ? error.message : 'Unknown error'
errorMessage(error) ==
    [kind |-> "string",
     text |-> IF error.kind = "Error" THEN error.message ELSE "Unknown error"]

\* what fetch resolves to: a response and its ok flag
Response(ok) == [kind |-> "Response", ok |-> ok]

ApiError == [kind |-> "Error", message |-> "API error"]
FetchFailures == { [kind |-> "Error", message |-> "Failed to fetch"],
                   [kind |-> "string", message |-> "aborted"] }
JsonFailures == { [kind |-> "Error", message |-> "Unexpected token < in JSON"] }

\* the cleanup of the latest run of the effect: isMounted = false
cleanup(effects, current) ==
    IF current = 0 THEN effects
    ELSE [effects EXCEPT ![current].isMounted = FALSE]

startEffect(effects, url) ==
    Append(effects, [url |-> url, isMounted |-> TRUE, stage |-> "fetch"])

\* the component mounts: useState starts loading, the effect runs
ApiMount(url) ==
    /\ ~api.mounted
    /\ Len(api.effects) < MaxFetches
    /\ api' = [mounted |-> TRUE,
               current |-> Len(api.effects) + 1,
               writer |-> 0,
               state |-> InitApi.state,
               effects |-> startEffect(api.effects, url)]
    /\ UNCHANGED <<serverVars, now, cookie, cookieExp, localStorage, hook,
                   discarded, nav, form, pag>>

\* a render with a changed url or options: the cleanup of the previous run,
\* then the effect again; the state is left as it is
ApiDepsChange(url) ==
    /\ api.mounted
    /\ Len(api.effects) < MaxFetches
    /\ api' = [api EXCEPT
                 !.current = Len(api.effects) + 1,
                 !.effects = startEffect(cleanup(api.effects, api.current), url)]
    /\ UNCHANGED <<serverVars, now, cookie, cookieExp, localStorage, hook,
                   discarded, nav, form, pag>>

ApiUnmount ==
    /\ api.mounted
    /\ api' = [api EXCEPT
                 !.mounted = FALSE,
                 !.effects = cleanup(api.effects, api.current)]
    /\ UNCHANGED <<serverVars, now, cookie, cookieExp, localStorage, hook,
                   discarded, nav, form, pag>>

\* the catch block of fetchData in run i
apiCatch(i, error) ==
    [api EXCEPT
       !.effects[i].stage = "done",
       !.state = IF api.effects[i].isMounted
                 THEN [data |-> Null, loading |-> FALSE, error |-> errorMessage(error)]
                 ELSE @,
       !.writer = IF api.effects[i].isMounted THEN i ELSE @]

\* await fetch(url, options) of run i settles: a response that is ok, one that
\* is not, or a rejection
ApiFetchSettles(i, outcome) ==
    /\ i \in EffectIds
    /\ api.effects[i].stage = "fetch"
    /\ api' = CASE outcome = Response(TRUE) -> [api EXCEPT !.effects[i].stage = "json"]
                [] outcome = Response(FALSE) -> apiCatch(i, ApiError)
                [] OTHER -> apiCatch(i, outcome)
    /\ UNCHANGED <<serverVars, now, cookie, cookieExp, localStorage, hook,
                   discarded, nav, form, pag>>

\* await res.json() of run i settles
ApiJsonSettles(i, outcome) ==
    /\ i \in EffectIds
    /\ api.effects[i].stage = "json"
    /\ api' = IF outcome \in JsonFailures
              THEN apiCatch(i, outcome)
              ELSE [api EXCEPT
                      !.effects[i].stage = "done",
                      !.state = IF api.effects[i].isMounted
                                THEN [data |-> dataOf(outcome), loading |-> FALSE,
                                      error |-> Null]
                                ELSE @,
                      !.writer = IF api.effects[i].isMounted THEN i ELSE @]
    /\ UNCHANGED <<serverVars, now, cookie, cookieExp, localStorage, hook,
                   discarded, nav, form, pag>>

(***************************************************************************)
(* useForm (src/hooks/useForm.ts).  One form uses the hook.  form.onSubmit *)
(* is the promise of the caller's onSubmit (idle, pending, resolved or     *)
(* rejected) and form.call the promise handleSubmit itself returned.       *)
(***************************************************************************)
FormFields == {"email"}

SubmitFailed == {<<"submit", "Failed to submit form">>}

\* what the pages' onSubmit pass to setErrors before they return
CallerErrors == { {<<"submit", "Authentication required">>} }

\* setErrors(prev => ({ ...prev, [name]: '' }))
clearError(errors, name) ==
    {e \in errors : e[1] # name} \cup {<<name, "">>}

handleChange(name) ==
    /\ form' = [form EXCEPT !.values = "edited",
                            !.errors = clearError(form.errors, name)]
    /\ UNCHANGED <<serverVars, now, cookie, cookieExp, localStorage, hook,
                   discarded, nav, api, pag>>

\* the submit event: the pages disable their submit button while isSubmitting,
\* so the event only comes when it is false.  setIsSubmitting(true), then
\* onSubmit(values) is called and awaited
handleSubmit ==
    /\ ~form.isSubmitting
    /\ form' = [form EXCEPT !.isSubmitting = TRUE,
                            !.onSubmit = "pending",
                            !.call = "pending"]
    /\ UNCHANGED <<serverVars, now, cookie, cookieExp, localStorage, hook,
                   discarded, nav, api, pag>>

\* the pages' onSubmit reports a failure of its own with setErrors
onSubmitSetErrors(errors) ==
    /\ form.onSubmit = "pending"
    /\ form' = [form EXCEPT !.errors = errors]
    /\ UNCHANGED <<serverVars, now, cookie, cookieExp, localStorage, hook,
                   discarded, nav, api, pag>>

\* a handleSubmit whose try has a finally but no catch
onSubmitSettles_noCatch(outcome) ==
    /\ form.onSubmit = "pending"
    /\ form' = [form EXCEPT
                  !.onSubmit = outcome,
                  !.isSubmitting = FALSE,
                  !.call = IF outcome = "rejected" THEN "rejected" ELSE "fulfilled"]
    /\ UNCHANGED <<serverVars, now, cookie, cookieExp, localStorage, hook,
                   discarded, nav, api, pag>>

\* await onSubmit(values) settles: the catch on a rejection, then the finally
onSubmitSettles(outcome) ==
    /\ form.onSubmit = "pending"
    /\ form' = [form EXCEPT
                  !.onSubmit = outcome,
                  !.errors = IF outcome = "rejected" THEN SubmitFailed ELSE @,
                  !.isSubmitting = FALSE,
                  !.call = "fulfilled"]
    /\ UNCHANGED <<serverVars, now, cookie, cookieExp, localStorage, hook,
                   discarded, nav, api, pag>>

(***************************************************************************)
(* The hooks together: a page that lists with useApi and submits with      *)
(* useForm.                                                                *)
(***************************************************************************)
NextHooks ==
    \/ \E url \in ApiUrls : ApiMount(url)
    \/ \E url \in ApiUrls : ApiDepsChange(url)
    \/ ApiUnmount
    \/ \E i \in 1..MaxFetches :
         \E outcome \in {Response(TRUE), Response(FALSE)} \cup FetchFailures : ApiFetchSettles(i, outcome)
    \/ \E i \in 1..MaxFetches :
         \E outcome \in JsonBodies(IF i \in EffectIds THEN api.effects[i].url ELSE "")
                          \cup JsonFailures :
            ApiJsonSettles(i, outcome)
    \/ \E name \in FormFields : handleChange(name)
    \/ handleSubmit
    \/ \E errors \in CallerErrors : onSubmitSetErrors(errors)
    \/ \E outcome \in {"resolved", "rejected"} : onSubmitSettles(outcome)

SpecHooks == InitGate /\ [][NextHooks]_vars

(***************************************************************************)
(* C27  useApi and superseded requests                                     *)
(***************************************************************************)
\* a completion of a run of the effect whose isMounted flag is already false
\* (its url or options were replaced, or the component unmounted) leaves the
\* state of the hook as it was
LateCompletionsIgnored ==
    [][\A i \in EffectIds :
         (~api.effects[i].isMounted /\ api'.effects[i].stage # api.effects[i].stage)
            => (api'.state = api.state /\ api'.writer = api.writer)]_vars

\* C27: in useApi the state of a mounted component only ever reflects the
\* latest request: it is either the loading state the hook started with or
\* what the completion of the latest run of the effect wrote; no superseded
\* request is behind the state shown.
C27_StateReflectsLatest ==
    api.mounted => api.writer \in {0, api.current}

MaxTotal == 25

DecimalDigits == <<"0", "1", "2", "3", "4", "5", "6", "7", "8", "9">>

isDigit(c) == \E i \in 1..10 : DecimalDigits[i] = c

digitValue(c) == (CHOOSE i \in 1..10 : DecimalDigits[i] = c) - 1

\* the longest prefix of s made of decimal digits
RECURSIVE digitPrefix(_)
digitPrefix(s) ==
    IF s = <<>> \/ ~isDigit(Head(s)) THEN <<>>
    ELSE <<Head(s)>> \o digitPrefix(Tail(s))

RECURSIVE decimalValue(_)
decimalValue(ds) ==
    IF ds = <<>> THEN 0
    ELSE 10 * decimalValue(SubSeq(ds, 1, Len(ds) - 1)) + digitValue(ds[Len(ds)])

\* a JavaScript number as parseInt returns it: NaN, or an integer
NaN == [nan |-> TRUE, n |-> 0]
Num(n) == [nan |-> FALSE, n |-> n]
isNaN(v) == v.nan

\* parseInt(s, 10): leading white space is skipped, a sign is read, then the
\* digits up to the first character that is not one; NaN when there is none
parseInt(s) ==
    LET t == TrimStart(s)
        negative == t # <<>> /\ Head(t) = "-"
        signed == t # <<>> /\ Head(t) \in {"-", "+"}
        ds == digitPrefix(IF signed THEN Tail(t) ELSE t)
    IN IF ds = <<>> THEN NaN
       ELSE Num(IF negative THEN 0 - decimalValue(ds) ELSE decimalValue(ds))

Max(a, b) == IF a >= b THEN a ELSE b
Min(a, b) == IF a <= b THEN a ELSE b

\* a parameter of the query string: absent, or present with its text
Absent == [present |-> FALSE, text |-> <<>>]
Given(text) == [present |-> TRUE, text |-> text]

\* searchParams.get(name) || fallback
getOr(param, fallback) ==
    IF ~param.present \/ param.text = <<>> THEN fallback ELSE param.text

\* parsePaginationParams without the upper limit of 100
parsePaginationParams_noCap(searchParams) ==
    LET page == parseInt(getOr(searchParams.page, <<"1">>))
        limit == parseInt(getOr(searchParams.limit, <<"1", "0">>))
    IN [page |-> Max(1, IF isNaN(page) THEN 1 ELSE page.n),
        limit |-> Max(1, IF isNaN(limit) THEN 10 ELSE limit.n)]

parsePaginationParams(searchParams) ==
    LET page == parseInt(getOr(searchParams.page, <<"1">>))
        limit == parseInt(getOr(searchParams.limit, <<"1", "0">>))
    IN [page |-> Max(1, IF isNaN(page) THEN 1 ELSE page.n),
        limit |-> Min(100, Max(1, IF isNaN(limit) THEN 10 ELSE limit.n))]

calculateSkip(page, limit) == (page - 1) * limit

\* Math.ceil(total / limit) for total >= 0 and limit >= 1
ceilDiv(total, limit) == (total + limit - 1) \div limit

\* calculatePagination with hasMore true on the last page as well
calculatePagination_lastHasMore(total, page, limit) ==
    LET pages == ceilDiv(total, limit)
    IN [page |-> page, limit |-> limit, total |-> total,
        pages |-> pages, hasMore |-> page <= pages]

calculatePagination(total, page, limit) ==
    LET pages == ceilDiv(total, limit)
        hasMore == page < pages
    IN [page |-> page, limit |-> limit, total |-> total,
        pages |-> pages, hasMore |-> hasMore]

\* the number of rows findMany({skip, take}) returns from a table of total rows
rowsReturned(total, skip, take) == Max(0, Min(take, total - skip))

\* the texts a page or limit parameter is given in the model
NonNumericTexts == { <<"a", "b", "c">>, <<>>, <<"-">>, <<"x", "1">> }
NumericTexts ==
    { <<"0">>, <<"-", "3">>, <<"1">>, <<"2">>, <<"3">>, <<"5">>, <<"1", "0">>,
      <<"1", "0", "0">>, <<"1", "0", "1">>, <<"2", "5", "0">> }
PrefixTexts == { <<"1", "2", "a">>, <<"1", ".", "5">>, <<" ", "7">>, <<"+", "4">> }
ParamValues ==
    {Absent} \cup {Given(t) : t \in NonNumericTexts \cup NumericTexts \cup PrefixTexts}
Queries == [page : ParamValues, limit : ParamValues]

\* GET /api/posts?page=..&limit=.. up to its await: the parameters are parsed
\* and the two queries of the store are started
GetPosts(searchParams) ==
    LET params == parsePaginationParams(searchParams)
        skip == calculateSkip(params.page, params.limit)
    IN /\ pag = Null
       /\ pag' = [stage |-> "await",
                  searchParams |-> searchParams,
                  page |-> params.page,
                  skip |-> skip,
                  take |-> params.limit,
                  rows |-> 0,
                  pagination |-> Null]
       /\ UNCHANGED <<serverVars, now, cookie, cookieExp, localStorage, hook,
                      discarded, nav, api, form>>

\* the queries settle, the store counting total posts: the pagination is
\* calculated and the response built
GetPostsResume(total) ==
    /\ pag # Null
    /\ pag.stage = "await"
    /\ pag' = [pag EXCEPT
                 !.stage = "responded",
                 !.rows = rowsReturned(total, pag.skip, pag.take),
                 !.pagination = calculatePagination(total, pag.page, pag.take)]
    /\ UNCHANGED <<serverVars, now, cookie, cookieExp, localStorage, hook,
                   discarded, nav, api, form>>

\* the response is sent; the next request starts afresh
GetPostsDone ==
    /\ pag # Null
    /\ pag.stage = "responded"
    /\ pag' = Null
    /\ UNCHANGED <<serverVars, now, cookie, cookieExp, localStorage, hook,
                   discarded, nav, api, form>>

NextPage ==
    \/ \E searchParams \in Queries : GetPosts(searchParams)
    \/ \E total \in 0..MaxTotal : GetPostsResume(total)
    \/ GetPostsDone

SpecPage == InitGate /\ [][NextPage]_vars

(***************************************************************************)
(* C29  parsePaginationParams                                              *)
(***************************************************************************)
DefaultsTo(param) == ~param.present \/ param.text \in NonNumericTexts

\* C29: whatever the page and limit parameters of the query are (absent,
\* empty, not numeric, zero, negative, above 100), the handler works with a
\* page >= 1 and a limit between 1 and 100; a parameter that is absent or not
\* a number gives page 1, limit 10.
C29_PaginationParamsInRange ==
    pag # Null =>
        /\ pag.page >= 1
        /\ pag.take >= 1
        /\ pag.take <= 100
        /\ DefaultsTo(pag.searchParams.page) => pag.page = 1
        /\ DefaultsTo(pag.searchParams.limit) => pag.take = 10

\* a request with a negative page and a limit above the maximum was served
\* with page 1 and limit 100
C29_Witness ==
    /\ pag # Null
    /\ pag.searchParams.page = Given(<<"-", "3">>)
    /\ pag.searchParams.limit = Given(<<"2", "5", "0">>)
    /\ pag.page = 1
    /\ pag.take = 100

(***************************************************************************)
(* C30  calculatePagination                                                *)
(***************************************************************************)
\* C30: pages is the ceiling of total / limit, i.e. the least number of pages
\* of limit items that hold total items, and hasMore is true exactly when
\* items exist beyond the current page: calculateSkip(page, limit) + limit <
\* total, where calculateSkip(page, limit) = (page - 1) * limit; equivalently
\* when the rows before and on the page are fewer than total.
C30_PagesAndHasMore ==
    (pag # Null /\ pag.stage = "responded") =>
        LET p == pag.pagination IN
        /\ p.pages * p.limit >= p.total
        /\ p.pages >= 0
        /\ p.pages > 0 => (p.pages - 1) * p.limit < p.total
        /\ pag.skip = (p.page - 1) * p.limit
        /\ p.hasMore <=> (pag.skip + p.limit < p.total)
        /\ p.hasMore <=> (pag.skip + pag.rows < p.total)

\* the last page of several: no more items, and the page is not full
C30_Witness ==
    /\ pag # Null
    /\ pag.stage = "responded"
    /\ pag.pagination.total = 7
    /\ pag.pagination.limit = 3
    /\ pag.pagination.page = 3
    /\ pag.pagination.pages = 3
    /\ ~pag.pagination.hasMore
    /\ pag.rows = 1

====
